---- MODULE Spec2Model ----
(***************************************************************************)
(* F1 Season Tracker: the scoring engine (points table, result normalizer, *)
(* event scorer, standings) and the handlers that store results.           *)
(*                                                                         *)
(* The repository holds two builds of the application: src/src/App.jsx     *)
(* (single season) and src/unnamed/part_000 (multi-season + analytics).    *)
(* Where the two differ the variable `build` selects the code modelled.    *)
(*                                                                         *)
(* JavaScript values are modelled as tagged records (JS values below): the *)
(* code coerces (Number(x), !!x, x || 1) and the coercions are modelled by *)
(* what they do.  Numbers are fixed-point in tenths, so that 2.5 and "2.5" *)
(* are values of the model.                                                *)
(***************************************************************************)
EXTENDS Integers, Sequences, FiniteSets, TLC

VARIABLES
    build,        \* "App.jsx" or "part_000": which build runs
    teams,        \* useStoredState("f1_teams")   / useSeasonedState(.., "f1_teams")
    drivers,      \* useStoredState("f1_drivers")
    events,       \* useStoredState("f1_events")
    results,      \* useStoredState("f1_results")
    tab,          \* useStoredState("f1_tab")
    call,         \* the pure function applied last ("idle" before any)
    argPosition,  \* computePointsFor: position
    argType,      \* computePointsFor: type
    retPoints,    \* computePointsFor: the value returned
    rawList,      \* normalizeResults: the list passed
    normList,     \* normalizeResults: the list returned
    scEvent,      \* scoreEventEntries / buildStandings: the event scored
    scEntries,    \* scoreEventEntries / buildStandings: its entries
    scScored,     \* scoreEventEntries: the outcomes returned
    scStandings,  \* buildStandings: the standings returned
    scPrior,      \* buildStandings: the standings returned by the call before
    prev,         \* setResults(prev => ..): the results the updater was given
    argEventId,   \* bulkReplaceEventResults: eventId
    argEntries,   \* bulkReplaceEventResults: entries (saveResultEntry: entry)
    eventsSorted, \* AnalyticsPanel: useMemo(() => sortEventsByRound(events))
    analytics,    \* AnalyticsPanel: { driverStats, driverCumSeries, rounds }
    analyticsPrior, \* AnalyticsPanel: what the memo held before the last change
    thrown, \* the exception a call ended with ("" when it returned)
    exported, \* exportJSON: the document of the file written (<<>> before any)
    panelEventId,  \* EnterResultsPanel: eventId, the event selected
    fastestLapDriverId,  \* EnterResultsPanel: the driver chosen for the fastest lap
    grid, \* EnterResultsPanel: the rows of the grid
    driverRowsMemo,  \* AnalyticsPanel: driverRows, the rows of the drivers table
    teamTotalsMemo, \* AnalyticsPanel: teamTotals, the totals of the teams
    meta,  \* useStoredState("f1_seasons_meta"): { seasons, activeId }
    storage,  \* localStorage: the value parsed from the text stored under each key
    shown,  \* the values the last commit rendered (the deps of its effects)
    uids, \* the ids uid() has returned so far
    formTeamId  \* DriversPanel: teamId, the team chosen for the driver to add

handlerVars == <<prev, argEventId, argEntries>>
appVars   == <<build, teams, drivers, events, results, tab, handlerVars>>
pointVars == <<argPosition, argType, retPoints>>
normVars  == <<rawList, normList>>
scoreVars == <<scEvent, scEntries, scScored, scStandings, scPrior>>
trendVars == <<eventsSorted, analytics, analyticsPrior>>
errorVars == <<thrown>>
fileVars == <<exported>>
panelVars == <<panelEventId, fastestLapDriverId, grid>>
totalVars == <<driverRowsMemo, teamTotalsMemo>>
seasonVars == <<meta, storage, shown, uids>>
formVars == <<formTeamId>>
vars      == <<appVars, call, pointVars, normVars, scoreVars, trendVars,
               errorVars,
               fileVars,
               panelVars,
               totalVars,
               seasonVars,
               formVars>>

(***************************************************************************)
(* JS values.  n is the number in tenths (t = "number"), or 1/0 for a      *)
(* boolean; s is the characters of a string.                               *)
(***************************************************************************)
Undefined  == [t |-> "undefined", n |-> 0, s |-> <<>>]
Null       == [t |-> "null", n |-> 0, s |-> <<>>]
NaN        == [t |-> "nan", n |-> 0, s |-> <<>>]
Bool(b)    == [t |-> "boolean", n |-> IF b THEN 1 ELSE 0, s |-> <<>>]
Tenths(k)  == [t |-> "number", n |-> k, s |-> <<>>]
Num(i)     == Tenths(i * 10)
Str(chars) == [t |-> "string", n |-> 0, s |-> chars]

IsNumber(v)  == v.t = "number"
IsInteger(v) == v.t = "number" /\ v.n % 10 = 0
IntOf(v)     == v.n \div 10

Digits == {"0", "1", "2", "3", "4", "5", "6", "7", "8", "9"}
DigitVal == [c \in Digits |->
    CASE c = "0" -> 0 [] c = "1" -> 1 [] c = "2" -> 2 [] c = "3" -> 3
      [] c = "4" -> 4 [] c = "5" -> 5 [] c = "6" -> 6 [] c = "7" -> 7
      [] c = "8" -> 8 [] c = "9" -> 9]

RECURSIVE TrimLeft(_)
TrimLeft(cs) ==
    IF cs # <<>> /\ Head(cs) = " " THEN TrimLeft(Tail(cs)) ELSE cs

RECURSIVE TrimRight(_)
TrimRight(cs) ==
    IF cs # <<>> /\ cs[Len(cs)] = " "
    THEN TrimRight(SubSeq(cs, 1, Len(cs) - 1)) ELSE cs

AllDigits(cs) == \A i \in 1..Len(cs) : cs[i] \in Digits

RECURSIVE DigitsValue(_)
DigitsValue(cs) ==
    IF cs = <<>> THEN 0
    ELSE DigitsValue(SubSeq(cs, 1, Len(cs) - 1)) * 10 + DigitVal[cs[Len(cs)]]

DotAt(cs) == IF \E i \in 1..Len(cs) : cs[i] = "."
             THEN CHOOSE i \in 1..Len(cs) :
                      cs[i] = "." /\ \A j \in 1..(i - 1) : cs[j] # "."
             ELSE 0

\* An unsigned StrDecimalLiteral (digits, digits.digits, digits., .digits) in
\* tenths, or NaN.  The strings of the model carry at most one fractional
\* digit; exponents, hex literals and Infinity are outside its alphabet.
UnsignedLiteral(cs) ==
    LET dot  == DotAt(cs)
        ip   == IF dot = 0 THEN cs ELSE SubSeq(cs, 1, dot - 1)
        fp   == IF dot = 0 THEN <<>> ELSE SubSeq(cs, dot + 1, Len(cs))
    IN  IF (ip = <<>> /\ fp = <<>>) \/ ~AllDigits(ip) \/ ~AllDigits(fp)
        THEN NaN
        ELSE Tenths(DigitsValue(ip) * 10
                    + (IF fp = <<>> THEN 0 ELSE DigitVal[fp[1]]))

\* StringToNumber of the language: white space trimmed, "" is 0, a sign,
\* a decimal literal; anything else is NaN.
StringToNumber(chars) ==
    LET cs == TrimRight(TrimLeft(chars))
    IN  IF cs = <<>> THEN Num(0)
        ELSE IF Head(cs) = "-"
             THEN LET u == UnsignedLiteral(Tail(cs))
                  IN  IF IsNumber(u) THEN Tenths(0 - u.n) ELSE NaN
        ELSE IF Head(cs) = "+" THEN UnsignedLiteral(Tail(cs))
        ELSE UnsignedLiteral(cs)

\* Number(v), and the ToNumber every arithmetic operator applies.
ToNumber(v) ==
    CASE v.t = "number"    -> v
      [] v.t = "nan"       -> NaN
      [] v.t = "undefined" -> NaN
      [] v.t = "null"      -> Num(0)
      [] v.t = "boolean"   -> Num(v.n)
      [] v.t = "string"    -> StringToNumber(v.s)

\* !!v
Truthy(v) ==
    CASE v.t = "number"    -> v.n # 0
      [] v.t = "nan"       -> FALSE
      [] v.t = "undefined" -> FALSE
      [] v.t = "null"      -> FALSE
      [] v.t = "boolean"   -> v.n = 1
      [] v.t = "string"    -> v.s # <<>>

\* a || b
OrElse(a, b) == IF Truthy(a) THEN a ELSE b

\* a ?? b
Coalesce(a, b) == IF a = Undefined \/ a = Null THEN b ELSE a

\* a >= b, a <= b against a number: false when either side is NaN.
GreaterEq(a, b) ==
    LET x == ToNumber(a)
        y == ToNumber(b)
    IN  IsNumber(x) /\ IsNumber(y) /\ x.n >= y.n
LessEq(a, b) == GreaterEq(b, a)

\* a === b
StrictEq(a, b) == a.t # "nan" /\ a = b

\* a - b;  a + b for operands that are not strings
Minus(a, b) ==
    LET x == ToNumber(a)
        y == ToNumber(b)
    IN  IF IsNumber(x) /\ IsNumber(y) THEN Tenths(x.n - y.n) ELSE NaN
Plus(a, b) ==
    LET x == ToNumber(a)
        y == ToNumber(b)
    IN  IF IsNumber(x) /\ IsNumber(y) THEN Tenths(x.n + y.n) ELSE NaN

\* Math.max(a, b), Math.min(a, b)
MathMax(a, b) ==
    LET x == ToNumber(a)
        y == ToNumber(b)
    IN  IF IsNumber(x) /\ IsNumber(y)
        THEN (IF x.n >= y.n THEN x ELSE y) ELSE NaN
MathMin(a, b) ==
    LET x == ToNumber(a)
        y == ToNumber(b)
    IN  IF IsNumber(x) /\ IsNumber(y)
        THEN (IF x.n <= y.n THEN x ELSE y) ELSE NaN

\* array[index]: the element for an integer index inside the array, else
\* undefined (a fractional index names no element).
ArrayAt(arr, index) ==
    IF IsInteger(index) /\ IntOf(index) >= 0 /\ IntOf(index) < Len(arr)
    THEN Num(arr[IntOf(index) + 1])
    ELSE Undefined

(***************************************************************************)
(* Points table                                                            *)
(***************************************************************************)
RACE_POINTS   == <<25, 18, 15, 12, 10, 8, 6, 4, 2, 1>>
SPRINT_POINTS == <<8, 7, 6, 5, 4, 3, 2, 1>>

PointsFrom(table, position) ==
    IF GreaterEq(position, Num(1)) /\ LessEq(position, Num(Len(table)))
    THEN ArrayAt(table, Minus(position, Num(1)))
    ELSE Num(0)

\* A table one entry short at the end: the last scoring place earns nothing.
computePointsForShort(position, type) ==
    IF type = "Sprint"
    THEN PointsFrom(SubSeq(SPRINT_POINTS, 1, Len(SPRINT_POINTS) - 1), position)
    ELSE PointsFrom(SubSeq(RACE_POINTS, 1, Len(RACE_POINTS) - 1), position)

computePointsFor(position, type) ==
    IF type = "Sprint"
    THEN PointsFrom(SPRINT_POINTS, position)
    ELSE PointsFrom(RACE_POINTS, position)

(***************************************************************************)
(* Strings that are compared with localeCompare: ids (uid() draws them     *)
(* from the lower-case letters and digits) and names.  CollationRank is    *)
(* the place of a string in the collation order of the locale.             *)
(***************************************************************************)
\* A record without the field: read, the field is undefined, and as the
\* argument of localeCompare it is the string "undefined".
Missing == "undefined"

EventIds  == {"e1", "e2"}
DriverIds == {"d1", "d2"}
TeamIds   == {"t1", "t2"}
Names     == {"Alonso", "Bottas", "Ferrari", "McLaren"}

CollationRank ==
    [x \in EventIds \cup DriverIds \cup TeamIds \cup Names
            \cup {"", Missing, "e3", "e4", "e5"} |->
        CASE x = ""        -> 0
          [] x = "Alonso"  -> 1
          [] x = "Bottas"  -> 2
          [] x = "d1"      -> 3
          [] x = "d2"      -> 4
          [] x = "e1"      -> 5
          [] x = "e2"      -> 6
          [] x = "e3"      -> 7
          [] x = "e4"      -> 8
          [] x = "e5"      -> 9
          [] x = "Ferrari" -> 10
          [] x = "McLaren" -> 11
          [] x = "t1"      -> 12
          [] x = "t2"      -> 13
          [] x = Missing   -> 14]

\* a.localeCompare(b): negative, zero or positive
localeCompare(a, b) ==
    IF CollationRank[a] < CollationRank[b] THEN Num(-1)
    ELSE IF CollationRank[a] > CollationRank[b] THEN Num(1)
    ELSE Num(0)

(***************************************************************************)
(* Array.prototype.sort(comparefn): stable; b goes before a exactly when   *)
(* comparefn(a, b) > 0 (a NaN from comparefn counts as 0).                 *)
(***************************************************************************)
Positive(v) == IsNumber(v) /\ v.n > 0

\* The element of a one-element set: Only({F(x) : x \in {v}}) is F applied
\* to the value of v, with v evaluated once.
Only(S) == CHOOSE r \in S : TRUE

SeqToSet(seq) == {seq[i] : i \in 1..Len(seq)}

\* x taken into a sorted prefix: behind the last element that x is not to
\* precede.  after holds the pairs <<a, b>> with comparefn(a, b) > 0.
InsertStable(sortedSoFar, x, after) ==
    Only({LET keep == {j \in 1..Len(sorted) : <<sorted[j], x>> \notin after}
              at   == IF keep = {} THEN 0
                      ELSE CHOOSE j \in keep : \A k \in keep : k <= j
          IN  SubSeq(sorted, 1, at) \o <<x>>
              \o SubSeq(sorted, at + 1, Len(sorted)) :
          sorted \in {sortedSoFar}})

SortBy(array, after) ==
    Only({LET prefix[k \in 0..Len(seq)] ==
                  IF k = 0 THEN <<>>
                  ELSE InsertStable(prefix[k - 1], seq[k], rel)
          IN  prefix[Len(seq)] :
          seq \in {array}, rel \in {after}})

\* list.filter(keep)
RECURSIVE FilterSeq(_, _)
FilterSeq(seq, keep) ==
    IF seq = <<>> THEN <<>>
    ELSE IF Head(seq) \in keep
         THEN <<Head(seq)>> \o FilterSeq(Tail(seq), keep)
         ELSE FilterSeq(Tail(seq), keep)

(***************************************************************************)
(* Result entries.  status holds the string of the record, NoStatus when   *)
(* the record has none; position and fastestLap hold JS values.            *)
(***************************************************************************)
NoStatus == "(undefined)"

Entry(e, d, p, st, fl) ==
    [eventId |-> e, driverId |-> d, position |-> p, status |-> st,
     fastestLap |-> fl]

(***************************************************************************)
(* Result normalizer                                                       *)
(***************************************************************************)
\* (a,b) => a.eventId.localeCompare(b.eventId) || a.position - b.position
normalizeCompare(a, b) ==
    OrElse(localeCompare(a.eventId, b.eventId), Minus(a.position, b.position))

\* The comparator without its first key: positions alone order the list.
normalizePositionOnlyAfter(a, b) == Positive(Minus(a.position, b.position))

\* The comparator that also moves an entry behind its equals.
normalizeAfterOrEqual(a, b) ==
    LET c == normalizeCompare(a, b) IN IsNumber(c) /\ c.n >= 0

normalizeAfter(a, b) == Positive(normalizeCompare(a, b))

\* The map without the status constraint.
normalizeEntryKeepStatus(r) ==
    [r EXCEPT
        !.position   = MathMax(Num(1), OrElse(ToNumber(r.position), Num(1))),
        !.fastestLap = Bool(Truthy(r.fastestLap))]

normalizeEntry(r) ==
    [r EXCEPT
        !.position   = MathMax(Num(1), OrElse(ToNumber(r.position), Num(1))),
        !.status     = IF r.status = "DNF" THEN "DNF"
                       ELSE IF r.status = "DNS" THEN "DNS" ELSE "FIN",
        !.fastestLap = Bool(Truthy(r.fastestLap))]

normalizeMapped(list) == [i \in 1..Len(list) |-> normalizeEntry(list[i])]

\* The pairs of entries the comparator of normalizeResults puts a after b.
normalizeOrder(list) ==
    {pair \in SeqToSet(list) \X SeqToSet(list) :
        normalizeAfter(pair[1], pair[2])}

normalizeResults(list) ==
    Only({SortBy(mapped, normalizeOrder(mapped)) :
          mapped \in {normalizeMapped(list)}})

(***************************************************************************)
(* Event scorer and standings                                              *)
(***************************************************************************)
Team(id, name)             == [id |-> id, name |-> name]
Driver(id, name, teamId)   == [id |-> id, name |-> name, teamId |-> teamId]
Event(id, name, round, ty) == [id |-> id, name |-> name, round |-> round,
                               type |-> ty]

\* (a,b) => a.position - b.position
positionAfter(a, b) == Positive(Minus(a.position, b.position))
positionOrder(list) ==
    {pair \in SeqToSet(list) \X SeqToSet(list) :
        positionAfter(pair[1], pair[2])}
sortByPosition(list) ==
    Only({SortBy(seq, positionOrder(seq)) : seq \in {list}})

entriesOfEvent(list, eventId) ==
    FilterSeq(list, {r \in {list[i] : i \in 1..Len(list)} :
                        r.eventId = eventId})

\* Base points that ignore the status.
basePointsAnyStatus(r, type) == computePointsFor(r.position, type)

\* r.status === 'FIN' ? computePointsFor(r.position, e.type) : 0
basePoints(r, type) ==
    IF r.status = "FIN" THEN computePointsFor(r.position, type) ELSE Num(0)

\* The bonus without the event-kind test.
fastestLapBonusAnyKind(r, type) ==
    IF Truthy(r.fastestLap) /\ LessEq(r.position, Num(10))
    THEN Num(1) ELSE Num(0)

\* (e.type === 'GP' && r.fastestLap && r.position <= 10) ? 1 : 0
fastestLapBonus(r, type) ==
    IF type = "GP" /\ Truthy(r.fastestLap) /\ LessEq(r.position, Num(10))
    THEN Num(1) ELSE Num(0)

scoreEntry(event, r) ==
    LET base == basePoints(r, event.type)
        fl   == fastestLapBonus(r, event.type)
    IN  [driverId |-> r.driverId, pts |-> Plus(base, fl), pos |-> r.position,
         status |-> r.status, fastestLapApplied |-> Truthy(fl)]

scoreEventEntries(event, entries) ==
    LET sorted == sortByPosition(entries)
    IN  [i \in 1..Len(sorted) |-> scoreEntry(event, sorted[i])]

\* Object.fromEntries(drivers.map(d => [d.id, d])): the last driver of an id
driverById(driverList) ==
    [id \in {d.id : d \in SeqToSet(driverList)} |->
        driverList[CHOOSE i \in 1..Len(driverList) :
            /\ driverList[i].id = id
            /\ \A j \in (i + 1)..Len(driverList) : driverList[j].id # id]]

initialStats ==
    [points |-> Num(0), wins |-> 0, podiums |-> 0, bestFinish |-> Num(99),
     finishes |-> <<>>]

\* A podium counted for a finished result only.
isPodiumIfFinished(b, r) ==
    r.status = "FIN" /\ LessEq(r.position, Num(3))

\* r.position >= 1 && r.position <= 3 (App.jsx);  r.position <= 3 (part_000)
isPodium(b, r) ==
    IF b = "App.jsx"
    THEN GreaterEq(r.position, Num(1)) /\ LessEq(r.position, Num(3))
    ELSE LessEq(r.position, Num(3))

\* The events in list order, each with its entries sorted by position.
RECURSIVE standingsWork(_, _)
standingsWork(eventList, resultList) ==
    IF eventList = <<>> THEN <<>>
    ELSE LET e      == Head(eventList)
             sorted == sortByPosition(entriesOfEvent(resultList, e.id))
         IN  [i \in 1..Len(sorted) |-> [event |-> e, entry |-> sorted[i]]]
             \o standingsWork(Tail(eventList), resultList)

\* The pass that credits the team before the fastest-lap bonus.
standingsStepTeamBase(b, acc, byId, item) ==
    LET r   == item.entry
        e   == item.event
    IN  IF r.driverId \notin DOMAIN acc.driverStats THEN acc
        ELSE
        LET d    == acc.driverStats[r.driverId]
            pts  == Plus(basePoints(r, e.type), fastestLapBonus(r, e.type))
            d2   == [points     |-> Plus(d.points, pts),
                     wins       |-> d.wins
                                    + (IF StrictEq(r.position, Num(1))
                                       THEN 1 ELSE 0),
                     podiums    |-> d.podiums
                                    + (IF isPodium(b, r) THEN 1 ELSE 0),
                     bestFinish |-> MathMin(d.bestFinish, r.position),
                     finishes   |-> Append(d.finishes, r.position)]
            tid  == byId[r.driverId].teamId
            tp   == IF tid = "" THEN acc.teamPoints
                    ELSE [acc.teamPoints EXCEPT
                            ![tid] = Plus(OrElse(@, Num(0)),
                                          basePoints(r, e.type))]
        IN  [driverStats |-> [acc.driverStats EXCEPT ![r.driverId] = d2],
             teamPoints  |-> tp]

\* The pass that keeps the latest finish as the best one.
standingsStepLatestFinish(b, acc, byId, item) ==
    LET r   == item.entry
        e   == item.event
    IN  IF r.driverId \notin DOMAIN acc.driverStats THEN acc
        ELSE
        LET d    == acc.driverStats[r.driverId]
            pts  == Plus(basePoints(r, e.type), fastestLapBonus(r, e.type))
            d2   == [points     |-> Plus(d.points, pts),
                     wins       |-> d.wins
                                    + (IF StrictEq(r.position, Num(1))
                                       THEN 1 ELSE 0),
                     podiums    |-> d.podiums
                                    + (IF isPodium(b, r) THEN 1 ELSE 0),
                     bestFinish |-> r.position,
                     finishes   |-> Append(d.finishes, r.position)]
            tid  == byId[r.driverId].teamId
            tp   == IF tid = "" THEN acc.teamPoints
                    ELSE [acc.teamPoints EXCEPT
                            ![tid] = Plus(OrElse(@, Num(0)), pts)]
        IN  [driverStats |-> [acc.driverStats EXCEPT ![r.driverId] = d2],
             teamPoints  |-> tp]

\* One pass of the inner loop of buildStandings.
standingsStep(b, acc, byId, item) ==
    LET r   == item.entry
        e   == item.event
    IN  IF r.driverId \notin DOMAIN acc.driverStats THEN acc
        ELSE
        LET d    == acc.driverStats[r.driverId]
            pts  == Plus(basePoints(r, e.type), fastestLapBonus(r, e.type))
            d2   == [points     |-> Plus(d.points, pts),
                     wins       |-> d.wins
                                    + (IF StrictEq(r.position, Num(1))
                                       THEN 1 ELSE 0),
                     podiums    |-> d.podiums
                                    + (IF isPodium(b, r) THEN 1 ELSE 0),
                     bestFinish |-> MathMin(d.bestFinish, r.position),
                     finishes   |-> Append(d.finishes, r.position)]
            tid  == byId[r.driverId].teamId
            tp   == IF tid = "" THEN acc.teamPoints
                    ELSE [acc.teamPoints EXCEPT
                            ![tid] = Plus(OrElse(@, Num(0)), pts)]
        IN  [driverStats |-> [acc.driverStats EXCEPT ![r.driverId] = d2],
             teamPoints  |-> tp]

\* The comparator without its last key, the name.
driverCompareWithoutName(a, b) ==
    OrElse(OrElse(OrElse(
        Minus(b.points, a.points),
        Num(b.wins - a.wins)),
        Num(b.podiums - a.podiums)),
        Minus(a.bestFinish, b.bestFinish))

\* Sort by points desc, wins desc, podiums desc, bestFinish asc, name asc
driverCompare(a, b) ==
    OrElse(OrElse(OrElse(OrElse(
        Minus(b.points, a.points),
        Num(b.wins - a.wins)),
        Num(b.podiums - a.podiums)),
        Minus(a.bestFinish, b.bestFinish)),
        localeCompare(a.driver.name, b.driver.name))
driverAfter(a, b) == Positive(driverCompare(a, b))

\* The team comparator on points alone.
teamAfterOnPoints(a, b) == Positive(Minus(b.points, a.points))

\* (a,b) => b.points - a.points || a.team.name.localeCompare(b.team.name)
teamAfter(a, b) ==
    Positive(OrElse(Minus(b.points, a.points),
                    localeCompare(a.team.name, b.team.name)))

\* The loops left at the first result of an unknown driver (break for
\* continue).
RECURSIVE standingsFoldUntilUnknown(_, _, _, _)
standingsFoldUntilUnknown(b, acc, byId, work) ==
    IF work = <<>> THEN acc
    ELSE IF Head(work).entry.driverId \notin DOMAIN acc.driverStats THEN acc
    ELSE Only({standingsFoldUntilUnknown(b, next, byId, Tail(work)) :
               next \in {standingsStep(b, acc, byId, Head(work))}})

\* The loops of buildStandings over the work still to do.
RECURSIVE standingsFold(_, _, _, _)
standingsFold(b, acc, byId, work) ==
    IF work = <<>> THEN acc
    ELSE Only({standingsFold(b, next, byId, Tail(work)) :
               next \in {standingsStep(b, acc, byId, Head(work))}})

standingsRows(driverList, teamList, final) ==
    LET driverRows == [i \in 1..Len(driverList) |->
                        LET st == final.driverStats[driverList[i].id]
                        IN  [driver |-> driverList[i], points |-> st.points,
                             wins |-> st.wins, podiums |-> st.podiums,
                             bestFinish |-> st.bestFinish,
                             finishes |-> st.finishes]]
        teamRows   == [i \in 1..Len(teamList) |->
                        [team |-> teamList[i],
                         points |-> OrElse(final.teamPoints[teamList[i].id],
                                           Num(0))]]
    IN  [drivers |-> SortBy(driverRows,
                            {pair \in SeqToSet(driverRows)
                                      \X SeqToSet(driverRows) :
                                driverAfter(pair[1], pair[2])}),
         teams   |-> SortBy(teamRows,
                            {pair \in SeqToSet(teamRows) \X SeqToSet(teamRows) :
                                teamAfter(pair[1], pair[2])})]

buildStandings(b, driverList, teamList, eventList, resultList) ==
    LET byId    == driverById(driverList)
        teamKey == {t.id : t \in SeqToSet(teamList)}
                   \cup {d.teamId : d \in SeqToSet(driverList)}
        init    == [driverStats |-> [id \in DOMAIN byId |-> initialStats],
                    teamPoints  |-> [id \in teamKey |-> Num(0)]]
    IN  Only({Only({standingsRows(driverList, teamList, final) :
                    final \in {standingsFold(b, start, index, work)}}) :
              work \in {standingsWork(eventList, resultList)},
              index \in {byId}, start \in {init}})

(***************************************************************************)
(* Bounds and input sets                                                   *)
(***************************************************************************)
MaxPosition == 13   \* computePointsFor is applied to -MaxPosition..MaxPosition
MaxRaw      == 2    \* longest list passed to normalizeResults
MaxScored   == 2    \* most entries of the event that is scored

Builds == {"App.jsx", "part_000"}

SeqsUpTo(S, n) == UNION {[1..k -> S] : k \in 0..n}

\* The multiset of the elements of a sequence.
SeqBag(seq) ==
    [x \in SeqToSet(seq) |-> Cardinality({i \in 1..Len(seq) : seq[i] = x})]

NoStandings == [drivers |-> <<>>, teams |-> <<>>]
NoEvent     == Event("", "", Undefined, "")

AppIdle ==
    /\ build = "App.jsx" /\ teams = <<>> /\ drivers = <<>> /\ events = <<>>
    /\ results = <<>> /\ tab = "Standings"
    /\ prev = <<>> /\ argEventId = "" /\ argEntries = <<>>
PointsIdle ==
    argPosition = Undefined /\ argType = "" /\ retPoints = Undefined
NormalizeIdle == rawList = <<>> /\ normList = <<>>
ScoreIdle ==
    /\ scEvent = NoEvent /\ scEntries = <<>> /\ scScored = <<>>
    /\ scStandings = NoStandings /\ scPrior = NoStandings

NoAnalytics == [driverStats |-> <<>>, driverCumSeries |-> <<>>, rounds |-> <<>>]
AnalyticsIdle ==
    eventsSorted = <<>> /\ analytics = NoAnalytics
    /\ analyticsPrior = NoAnalytics

NoError ==
    thrown = ""

NoFile ==
    exported = <<>>

PanelIdle ==
    panelEventId = "" /\ fastestLapDriverId = "" /\ grid = <<>>

TotalsIdle ==
    driverRowsMemo = <<>> /\ teamTotalsMemo = <<>>

\* { seasons: [], activeId: "" }, the initial value of meta
NoMeta == [seasons |-> <<>>, activeId |-> ""]
NotMounted ==
    [mounted |-> FALSE, meta |-> NoMeta, teams |-> <<>>, drivers |-> <<>>,
     events |-> <<>>, results |-> <<>>, tab |-> ""]

SeasonsIdle ==
    meta = NoMeta /\ storage = <<>> /\ shown = NotMounted /\ uids = 0

FormIdle ==
    formTeamId = ""

(***************************************************************************)
(* computePointsFor applied to one position and one event type             *)
(***************************************************************************)
PositionArgs ==
    {Num(i) : i \in (0 - MaxPosition)..MaxPosition}
    \cup {Tenths(5), Tenths(25), Tenths(105)}
TypeArgs == {"GP", "Sprint"}

InitPoints ==
    /\ AppIdle /\ NormalizeIdle /\ ScoreIdle
    /\ AnalyticsIdle
    /\ NoError
    /\ NoFile
    /\ PanelIdle
    /\ TotalsIdle
    /\ SeasonsIdle
    /\ FormIdle
    /\ call = "idle"
    /\ argPosition \in PositionArgs
    /\ argType \in TypeArgs
    /\ retPoints = Undefined

ComputePoints ==
    /\ call = "idle"
    /\ call' = "computePointsFor"
    /\ retPoints' = computePointsFor(argPosition, argType)
    /\ UNCHANGED formVars
    /\ UNCHANGED seasonVars
    /\ UNCHANGED totalVars
    /\ UNCHANGED panelVars
    /\ UNCHANGED fileVars
    /\ UNCHANGED errorVars
    /\ UNCHANGED trendVars
    /\ UNCHANGED <<appVars, argPosition, argType, normVars, scoreVars>>

NextPoints == ComputePoints
SpecPoints == InitPoints /\ [][NextPoints]_vars

(***************************************************************************)
(* normalizeResults applied to a raw list, and again to its own output     *)
(***************************************************************************)
RawPositions ==
    {Undefined, Null, Num(0), Num(-3), Num(1), Num(2), Tenths(25),
     Str(<<"3">>), Str(<<"2", ".", "5">>), Str(<<" ", "2", " ">>),
     Str(<<"1", "2", "a", "b", "c">>), Str(<<>>)}
RawStatuses == {"FIN", "DNF", "DNS", "dnf", "Retired", NoStatus}
RawFlags    == {Undefined, Bool(TRUE), Bool(FALSE), Num(1), Str(<<"n", "o">>)}

\* Raw entries: every raw position in both events, every raw status and
\* flag on a second driver.
RawEntries ==
    {Entry(e, "d1", p, "FIN", Bool(FALSE)) : e \in EventIds, p \in RawPositions}
    \cup {Entry("e1", "d2", Num(1), st, Undefined) : st \in RawStatuses}
    \cup {Entry("e2", "d2", Num(2), "FIN", fl) : fl \in RawFlags}

InitNormalize ==
    /\ AppIdle /\ PointsIdle /\ ScoreIdle
    /\ AnalyticsIdle
    /\ NoError
    /\ NoFile
    /\ PanelIdle
    /\ TotalsIdle
    /\ SeasonsIdle
    /\ FormIdle
    /\ call = "idle"
    /\ rawList \in SeqsUpTo(RawEntries, MaxRaw)
    /\ normList = <<>>

Normalize ==
    /\ call = "idle"
    /\ call' = "normalizeResults"
    /\ normList' = normalizeResults(rawList)
    /\ UNCHANGED formVars
    /\ UNCHANGED seasonVars
    /\ UNCHANGED totalVars
    /\ UNCHANGED panelVars
    /\ UNCHANGED fileVars
    /\ UNCHANGED errorVars
    /\ UNCHANGED trendVars
    /\ UNCHANGED <<appVars, pointVars, rawList, scoreVars>>

\* The output passed back in.
Renormalize ==
    /\ call = "normalizeResults"
    /\ call' = "renormalize"
    /\ rawList' = normList
    /\ normList' = normalizeResults(normList)
    /\ UNCHANGED formVars
    /\ UNCHANGED seasonVars
    /\ UNCHANGED totalVars
    /\ UNCHANGED panelVars
    /\ UNCHANGED fileVars
    /\ UNCHANGED errorVars
    /\ UNCHANGED trendVars
    /\ UNCHANGED <<appVars, pointVars, scoreVars>>

NextNormalize == Normalize \/ Renormalize
SpecNormalize == InitNormalize /\ [][NextNormalize]_vars

(***************************************************************************)
(* scoreEventEntries and buildStandings applied to one event               *)
(***************************************************************************)
ScoreTeams   == <<Team("t1", "Ferrari")>>
ScoreDrivers == <<Driver("d1", "Alonso", "t1"), Driver("d2", "Bottas", "")>>
ScoreEvents  == {Event("e1", "Ferrari", Num(1), "GP"),
                 Event("e2", "McLaren", Num(2), "Sprint")}
ScoreEntries(e) ==
    {Entry(e, "d1", Num(p), st, Bool(fl)) :
        p \in {1, 10, 11}, st \in {"FIN", "DNF", "DNS"}, fl \in BOOLEAN}
    \cup {Entry(e, "d2", Num(2), "FIN", Bool(FALSE)),
          Entry(e, "d2", Num(1), "DNF", Bool(TRUE))}

InitScore ==
    /\ teams = ScoreTeams /\ drivers = ScoreDrivers /\ build \in Builds
    /\ events = <<>> /\ results = <<>> /\ tab = "Standings"
    /\ prev = <<>> /\ argEventId = "" /\ argEntries = <<>>
    /\ PointsIdle /\ NormalizeIdle
    /\ AnalyticsIdle
    /\ NoError
    /\ NoFile
    /\ PanelIdle
    /\ TotalsIdle
    /\ SeasonsIdle
    /\ FormIdle
    /\ call = "idle"
    /\ scEvent \in ScoreEvents
    /\ scEntries \in SeqsUpTo(ScoreEntries(scEvent.id), MaxScored)
    /\ scScored = <<>>
    /\ scStandings = NoStandings
    /\ scPrior = NoStandings

ScoreEvent ==
    /\ call = "idle"
    /\ call' = "scoreEventEntries"
    /\ scScored' = scoreEventEntries(scEvent, scEntries)
    /\ UNCHANGED formVars
    /\ UNCHANGED seasonVars
    /\ UNCHANGED totalVars
    /\ UNCHANGED panelVars
    /\ UNCHANGED fileVars
    /\ UNCHANGED errorVars
    /\ UNCHANGED trendVars
    /\ UNCHANGED <<appVars, pointVars, normVars, scEvent, scEntries,
                   scStandings, scPrior>>

BuildStandings ==
    /\ call = "scoreEventEntries"
    /\ call' = "buildStandings"
    /\ scStandings' = buildStandings(build, drivers, teams, <<scEvent>>,
                                     scEntries)
    /\ UNCHANGED formVars
    /\ UNCHANGED seasonVars
    /\ UNCHANGED totalVars
    /\ UNCHANGED panelVars
    /\ UNCHANGED fileVars
    /\ UNCHANGED errorVars
    /\ UNCHANGED trendVars
    /\ UNCHANGED <<appVars, pointVars, normVars, scEvent, scEntries, scScored,
                   scPrior>>

NextScore == ScoreEvent \/ BuildStandings
SpecScore == InitScore /\ [][NextScore]_vars

(***************************************************************************)
(* The handlers of App that store results                                  *)
(***************************************************************************)
\* normalizeResults([...prev.filter(r => r.eventId !== eventId), ...entries])
bulkReplaceEventResults(stored, eventId, entries) ==
    normalizeResults(
        FilterSeq(stored, {r \in SeqToSet(stored) : r.eventId # eventId})
        \o entries)

\* { ...copy[idx], ...entry }: the keys entry has override the stored ones.
mergeEntry(old, entry) ==
    [eventId    |-> entry.eventId,
     driverId   |-> entry.driverId,
     position   |-> IF entry.position = Undefined THEN old.position
                    ELSE entry.position,
     status     |-> IF entry.status = NoStatus THEN old.status
                    ELSE entry.status,
     fastestLap |-> IF entry.fastestLap = Undefined THEN old.fastestLap
                    ELSE entry.fastestLap]

saveResultEntry(stored, entry) ==
    LET found == {i \in 1..Len(stored) :
                    /\ stored[i].eventId = entry.eventId
                    /\ stored[i].driverId = entry.driverId}
    IN  IF found # {}
        THEN LET idx == CHOOSE i \in found : \A j \in found : i <= j
             IN  normalizeResults(
                    [stored EXCEPT ![idx] = mergeEntry(stored[idx], entry)])
        ELSE normalizeResults(Append(stored, entry))

\* A key of an imported document: an array, a missing (or null) key, or a
\* value of another type.
ArrayKey(items) == [kind |-> "array", items |-> items]
MissingKey      == [kind |-> "missing", items |-> <<>>]
OtherKey        == [kind |-> "other", items |-> <<>>]

\* data.teams ?? []  (App.jsx);  Array.isArray(data.teams) ? data.teams : []
arrayOrEmpty(key) == IF key.kind = "array" THEN key.items ELSE <<>>

\* What importJSON leaves in results, and whether it threw on the way: in
\* App.jsx normalizeResults throws on a value that has no map().
importedResults(b, stored, key) ==
    IF b = "App.jsx"
    THEN (IF key.kind = "other" THEN stored
          ELSE normalizeResults(arrayOrEmpty(key)))
    ELSE arrayOrEmpty(key)
importThrows(b, key) == b = "App.jsx" /\ key.kind = "other"

MaxEntries  == 2    \* most entries passed to bulkReplaceEventResults
MaxImported == 2    \* most results in an imported document

AppTeams   == ScoreTeams
AppDrivers == ScoreDrivers
AppEvents  == <<Event("e1", "Ferrari", Num(1), "GP"),
                Event("e2", "McLaren", Num(2), "Sprint")>>

\* Entries a grid may hold for event e: for e1 two of one driver, with
\* different positions.
GridEntries(e) ==
    IF e = "e1"
    THEN {Entry(e, "d1", Num(1), "FIN", Bool(TRUE)),
          Entry(e, "d1", Num(2), "DNF", Bool(FALSE))}
    ELSE {Entry(e, "d1", Num(1), "FIN", Bool(FALSE))}

\* Entries a file may hold: one as exported and one that was never
\* normalized.
FileEntries ==
    {Entry("e1", "d1", Num(1), "FIN", Bool(TRUE)),
     Entry("e2", "d2", Num(0), "Retired", Undefined)}

\* Entries saved one at a time: a patch of the position alone, and a new
\* entry with a string position.
SavedEntries ==
    {Entry("e1", "d1", Num(3), NoStatus, Undefined),
     Entry("e2", "d2", Str(<<"2">>), "DNS", Num(1))}

Documents ==
    {[valid |-> TRUE, teams |-> roster[1], drivers |-> roster[2],
      events |-> roster[3], results |-> res] :
        roster \in {<<ArrayKey(AppTeams), ArrayKey(AppDrivers),
                      ArrayKey(AppEvents)>>,
                    <<MissingKey, MissingKey, MissingKey>>},
        res \in {MissingKey, OtherKey}
                \cup {ArrayKey(l) : l \in SeqsUpTo(FileEntries, MaxImported)}}
    \cup {[valid |-> FALSE, teams |-> MissingKey, drivers |-> MissingKey,
           events |-> MissingKey, results |-> MissingKey]}

Init ==
    /\ build \in Builds
    /\ teams = <<>> /\ drivers = <<>> /\ events = <<>> /\ results = <<>>
    /\ tab = "Standings"
    /\ prev = <<>> /\ argEventId = "" /\ argEntries = <<>>
    /\ AnalyticsIdle
    /\ NoError
    /\ NoFile
    /\ PanelIdle
    /\ TotalsIdle
    /\ SeasonsIdle
    /\ FormIdle
    /\ call = "idle"
    /\ PointsIdle /\ NormalizeIdle /\ ScoreIdle

\* bulkReplaceEventResults(eventId, entries); the entries carry the id of
\* the event, as saveAll stamps them.
BulkReplaceEventResults(eventId, entries) ==
    /\ call' = "bulkReplaceEventResults"
    /\ prev' = results
    /\ argEventId' = eventId
    /\ argEntries' = entries
    /\ results' = bulkReplaceEventResults(results, eventId, entries)
    /\ UNCHANGED formVars
    /\ UNCHANGED seasonVars
    /\ UNCHANGED totalVars
    /\ UNCHANGED panelVars
    /\ UNCHANGED fileVars
    /\ UNCHANGED errorVars
    /\ UNCHANGED trendVars
    /\ UNCHANGED <<build, teams, drivers, events, tab, pointVars, normVars,
                   scoreVars>>

\* saveResultEntry(entry): App.jsx only.
SaveResultEntry(entry) ==
    /\ build = "App.jsx"
    /\ call' = "saveResultEntry"
    /\ prev' = results
    /\ argEventId' = entry.eventId
    /\ argEntries' = <<entry>>
    /\ results' = saveResultEntry(results, entry)
    /\ UNCHANGED formVars
    /\ UNCHANGED seasonVars
    /\ UNCHANGED totalVars
    /\ UNCHANGED panelVars
    /\ UNCHANGED fileVars
    /\ UNCHANGED errorVars
    /\ UNCHANGED trendVars
    /\ UNCHANGED <<build, teams, drivers, events, tab, pointVars, normVars,
                   scoreVars>>

\* importJSON(file): a file that does not parse to an object changes
\* nothing; in App.jsx a throw from normalizeResults comes after the three
\* rosters are set and before the tab is.
ImportJSON(doc) ==
    /\ call' = "importJSON"
    /\ prev' = <<>> /\ argEventId' = "" /\ argEntries' = <<>>
    /\ IF ~doc.valid
       THEN UNCHANGED <<teams, drivers, events, results, tab>>
       ELSE /\ teams' = arrayOrEmpty(doc.teams)
            /\ drivers' = arrayOrEmpty(doc.drivers)
            /\ events' = arrayOrEmpty(doc.events)
            /\ results' = importedResults(build, results, doc.results)
            /\ tab' = IF importThrows(build, doc.results) THEN tab
                      ELSE "Standings"
    /\ UNCHANGED formVars
    /\ UNCHANGED seasonVars
    /\ UNCHANGED totalVars
    /\ UNCHANGED panelVars
    /\ UNCHANGED fileVars
    /\ UNCHANGED errorVars
    /\ UNCHANGED trendVars
    /\ UNCHANGED <<build, pointVars, normVars, scoreVars>>

\* clearAll (App.jsx) / clearSeason (part_000), once confirmed.
ClearAll ==
    /\ call' = "clearAll"
    /\ prev' = <<>> /\ argEventId' = "" /\ argEntries' = <<>>
    /\ teams' = <<>> /\ drivers' = <<>> /\ events' = <<>> /\ results' = <<>>
    /\ tab' = "Standings"
    /\ UNCHANGED formVars
    /\ UNCHANGED seasonVars
    /\ UNCHANGED totalVars
    /\ UNCHANGED panelVars
    /\ UNCHANGED fileVars
    /\ UNCHANGED errorVars
    /\ UNCHANGED trendVars
    /\ UNCHANGED <<build, pointVars, normVars, scoreVars>>

Next ==
    \/ \E eventId \in EventIds :
          \E entries \in SeqsUpTo(GridEntries(eventId), MaxEntries) :
              BulkReplaceEventResults(eventId, entries)
    \/ \E entry \in SavedEntries : SaveResultEntry(entry)
    \/ \E doc \in Documents : ImportJSON(doc)
    \/ ClearAll

Spec == Init /\ [][Next]_vars

(***************************************************************************)
(* exportJSON, and importJSON applied to the file it wrote                 *)
(***************************************************************************)
\* JSON.parse(JSON.stringify(v)) of a value: NaN is written as null; a
\* property that is undefined is left out and reads as undefined again.
jsonValue(v) == IF v.t = "nan" THEN Null ELSE v
jsonEntry(r) ==
    [r EXCEPT !.position = jsonValue(r.position),
              !.fastestLap = jsonValue(r.fastestLap)]
jsonEvent(e) == [e EXCEPT !.round = jsonValue(e.round)]

\* A document without its events.
exportJSONWithoutEvents(teamList, driverList, eventList, resultList) ==
    [valid |-> TRUE, teams |-> ArrayKey(teamList),
     drivers |-> ArrayKey(driverList), events |-> MissingKey,
     results |-> ArrayKey([i \in 1..Len(resultList) |->
                              jsonEntry(resultList[i])])]

\* JSON.stringify({ teams, drivers, events, results }, null, 2), as parsed
exportJSON(teamList, driverList, eventList, resultList) ==
    [valid |-> TRUE, teams |-> ArrayKey(teamList),
     drivers |-> ArrayKey(driverList),
     events |-> ArrayKey([i \in 1..Len(eventList) |->
                             jsonEvent(eventList[i])]),
     results |-> ArrayKey([i \in 1..Len(resultList) |->
                              jsonEntry(resultList[i])])]

\* The Export button.
ExportJSON ==
    /\ exported = <<>>
    /\ call' = "exportJSON"
    /\ exported' = exportJSON(teams, drivers, events, results)
    /\ UNCHANGED formVars
    /\ UNCHANGED seasonVars
    /\ UNCHANGED totalVars
    /\ UNCHANGED panelVars
    /\ UNCHANGED <<appVars, pointVars, normVars, scoreVars, trendVars,
                   errorVars>>

\* The file just written, chosen in the Import input.
ImportExported ==
    /\ call = "exportJSON"
    /\ ImportJSON(exported)

\* Editing, then one export and the import of its file.
NextRoundTrip ==
    \/ exported = <<>> /\ Next
    \/ ExportJSON
    \/ ImportExported

SpecRoundTrip == Init /\ [][NextRoundTrip]_vars

(***************************************************************************)
(* EnterResultsPanel: the grid, the fastest-lap choice and saveAll.  The   *)
(* effect on [eventId, results, drivers.length] runs before the next input *)
(* and is part of the step that changes one of them.                       *)
(***************************************************************************)
GridRows == 2    \* rows of a blank grid (Math.max(20, drivers.length))

\* A row of the grid; a row of App.jsx has no fastestLap.
GridRow(b, d, p, st, fl) ==
    [driverId |-> d, position |-> p, status |-> st,
     fastestLap |-> IF b = "App.jsx" THEN Undefined ELSE fl]

\* Array.from({length: Math.max(20, drivers.length)}, (_,i) => ({..}))
blankGrid(b, driverList) ==
    [i \in 1..(IF Len(driverList) > GridRows THEN Len(driverList)
               ELSE GridRows) |->
        GridRow(b, "", Num(i), "FIN", Bool(FALSE))]

\* The grid for the event selected: its stored results by position, or a
\* blank grid when it has none.
loadGrid(b, resultList, id, driverList) ==
    LET ex == sortByPosition(entriesOfEvent(resultList, id))
    IN  IF ex # <<>>
        THEN [i \in 1..Len(ex) |->
                 GridRow(b, ex[i].driverId, ex[i].position,
                         IF ex[i].status \in {NoStatus, ""} THEN "FIN"
                         ELSE ex[i].status,
                         Bool(Truthy(ex[i].fastestLap)))]
        ELSE blankGrid(b, driverList)

\* events.find(e => e.id === eventId), NoEvent when there is none
currentEvent(eventList, id) ==
    IF \E i \in 1..Len(eventList) : eventList[i].id = id
    THEN eventList[CHOOSE i \in 1..Len(eventList) :
                      /\ eventList[i].id = id
                      /\ \A j \in 1..(i - 1) : eventList[j].id # id]
    ELSE NoEvent

\* grid.filter(g => g.driverId)
gridFilled(rows) == FilterSeq(rows, {g \in SeqToSet(rows) : g.driverId # ""})

\* No test of the drivers seen.
hasDuplicateUnchecked(filled) == FALSE

\* The loop over filled with the Set seen: a driver is in two rows.
hasDuplicate(filled) ==
    \E i, j \in 1..Len(filled) : i < j /\ filled[i].driverId = filled[j].driverId

\* The entries saveAll passes to bulkReplace.
saveAllEntries(b, event, filled, flDriverId) ==
    LET entries == [i \in 1..Len(filled) |->
                       Entry(event.id, filled[i].driverId,
                             filled[i].position, filled[i].status,
                             IF b = "App.jsx" THEN Bool(FALSE)
                             ELSE OrElse(filled[i].fastestLap, Bool(FALSE)))]
        found   == {i \in 1..Len(entries) : entries[i].driverId = flDriverId}
    IN  IF event.type = "GP" /\ flDriverId # "" /\ found # {}
        THEN [entries EXCEPT ![CHOOSE i \in found : \A j \in found : i <= j]
                                 .fastestLap = Bool(TRUE)]
        ELSE entries

PanelDrivers == AppDrivers

InitPanel ==
    /\ build \in Builds
    /\ teams = AppTeams /\ drivers = PanelDrivers /\ events = AppEvents
    /\ results = <<>>
    /\ tab = "Enter Results"
    /\ prev = <<>> /\ argEventId = "" /\ argEntries = <<>>
    /\ panelEventId = events[1].id
    /\ fastestLapDriverId = ""
    /\ grid = blankGrid(build, drivers)
    /\ NoFile
    /\ AnalyticsIdle
    /\ NoError
    /\ TotalsIdle
    /\ SeasonsIdle
    /\ FormIdle
    /\ call = "idle"
    /\ PointsIdle /\ NormalizeIdle /\ ScoreIdle

\* The driver select of row idx.
SetGridDriver(idx, driverId) ==
    /\ grid[idx].driverId # driverId
    /\ call' = "setGrid"
    /\ grid' = [grid EXCEPT ![idx].driverId = driverId]
    /\ prev' = <<>> /\ argEventId' = "" /\ argEntries' = <<>>
    /\ UNCHANGED formVars
    /\ UNCHANGED seasonVars
    /\ UNCHANGED totalVars
    /\ UNCHANGED <<build, teams, drivers, events, results, tab, panelEventId,
                   fastestLapDriverId, pointVars, normVars, scoreVars,
                   trendVars, errorVars, fileVars>>

\* The Clear Grid button.
ClearGrid ==
    /\ call' = "setGrid"
    /\ grid' = blankGrid(build, drivers)
    /\ prev' = <<>> /\ argEventId' = "" /\ argEntries' = <<>>
    /\ UNCHANGED formVars
    /\ UNCHANGED seasonVars
    /\ UNCHANGED totalVars
    /\ UNCHANGED <<build, teams, drivers, events, results, tab, panelEventId,
                   fastestLapDriverId, pointVars, normVars, scoreVars,
                   trendVars, errorVars, fileVars>>

\* The Fastest Lap select, rendered for a GP.
SetFastestLapDriverId(driverId) ==
    /\ currentEvent(events, panelEventId).type = "GP"
    /\ fastestLapDriverId # driverId
    /\ call' = "setFastestLapDriverId"
    /\ fastestLapDriverId' = driverId
    /\ prev' = <<>> /\ argEventId' = "" /\ argEntries' = <<>>
    /\ UNCHANGED formVars
    /\ UNCHANGED seasonVars
    /\ UNCHANGED totalVars
    /\ UNCHANGED <<build, teams, drivers, events, results, tab, panelEventId,
                   grid, pointVars, normVars, scoreVars, trendVars, errorVars,
                   fileVars>>

\* The event select; the effect loads the grid of the event.
SetEventId(id) ==
    /\ panelEventId # id
    /\ call' = "setEventId"
    /\ panelEventId' = id
    /\ grid' = loadGrid(build, results, id, drivers)
    /\ fastestLapDriverId' = ""
    /\ prev' = <<>> /\ argEventId' = "" /\ argEntries' = <<>>
    /\ UNCHANGED formVars
    /\ UNCHANGED seasonVars
    /\ UNCHANGED totalVars
    /\ UNCHANGED <<build, teams, drivers, events, results, tab, pointVars,
                   normVars, scoreVars, trendVars, errorVars, fileVars>>

\* saveAll: nothing without the event or with a driver in two rows; else
\* bulkReplace(currentEvent.id, entries), and the effect loads the grid from
\* the new results.
SaveAll ==
    LET event  == currentEvent(events, panelEventId)
        filled == gridFilled(grid)
    IN  /\ call' = "saveAll"
        /\ IF event = NoEvent \/ hasDuplicate(filled)
           THEN /\ prev' = <<>> /\ argEventId' = "" /\ argEntries' = <<>>
                /\ UNCHANGED <<results, grid, fastestLapDriverId>>
           ELSE /\ prev' = <<>>
                /\ argEventId' = event.id
                /\ argEntries' = saveAllEntries(build, event, filled,
                                                fastestLapDriverId)
                /\ results' = bulkReplaceEventResults(results, event.id,
                                                      argEntries')
                /\ grid' = loadGrid(build, results', panelEventId, drivers)
                /\ fastestLapDriverId' = ""
        /\ UNCHANGED <<build, teams, drivers, events, tab, panelEventId,
                       pointVars, normVars, scoreVars, trendVars, errorVars,
                       fileVars, totalVars, seasonVars, formVars>>

NextPanel ==
    \/ \E idx \in 1..Len(grid) :
          \E d \in {""} \cup {drivers[i].id : i \in 1..Len(drivers)} :
              SetGridDriver(idx, d)
    \/ ClearGrid
    \/ \E d \in {""} \cup {drivers[i].id : i \in 1..Len(drivers)} :
          SetFastestLapDriverId(d)
    \/ \E i \in 1..Len(events) : SetEventId(events[i].id)
    \/ SaveAll

SpecPanel == InitPanel /\ [][NextPanel]_vars

(***************************************************************************)
(* The standings App derives from its state (useMemo over buildStandings), *)
(* recomputed after a driver is deleted and for reordered lists            *)
(***************************************************************************)
MaxStored == 2    \* most stored results the standings are built from

\* setDrivers(prev => prev.filter(d => d.id !== id))
deleteDriver(driverList, id) ==
    FilterSeq(driverList, {d \in SeqToSet(driverList) : d.id # id})

\* The orders a list can be given in.
Reorderings(list) ==
    {[i \in 1..Len(list) |-> list[perm[i]]] :
        perm \in Permutations(1..Len(list))}

\* Two drivers of one name in two teams, one driver of no team.
StandingsDrivers ==
    <<Driver("d1", "Alonso", "t1"), Driver("d2", "Bottas", ""),
      Driver("d3", "Alonso", "t2")>>
StandingsTeams == <<Team("t1", "McLaren"), Team("t2", "Ferrari")>>

\* Stored entries: a win with the fastest lap, a win that did not finish,
\* places behind it in the GP, places in the Sprint and the last place of a
\* grid of a hundred.
StandingsEntries ==
    {Entry("e1", "d1", Num(1), "FIN", Bool(TRUE)),
     Entry("e1", "d1", Num(1), "DNF", Bool(FALSE)),
     Entry("e1", "d2", Num(2), "FIN", Bool(FALSE)),
     Entry("e1", "d3", Num(4), "FIN", Bool(TRUE)),
     Entry("e2", "d1", Num(3), "FIN", Bool(FALSE)),
     Entry("e2", "d2", Num(1), "FIN", Bool(TRUE)),
     Entry("e2", "d3", Num(2), "DNS", Bool(FALSE)),
     Entry("e2", "d3", Num(100), "FIN", Bool(FALSE))}

InitStandings ==
    /\ build \in Builds
    /\ teams = StandingsTeams
    /\ drivers = StandingsDrivers
    /\ events \in {AppEvents, SubSeq(AppEvents, 1, 1)}
    /\ results \in {normalizeResults(list) :
                        list \in SeqsUpTo(StandingsEntries, MaxStored)}
    /\ tab = "Standings"
    /\ prev = <<>> /\ argEventId = "" /\ argEntries = <<>>
    /\ AnalyticsIdle
    /\ NoError
    /\ NoFile
    /\ PanelIdle
    /\ TotalsIdle
    /\ SeasonsIdle
    /\ FormIdle
    /\ call = "idle"
    /\ PointsIdle /\ NormalizeIdle /\ ScoreIdle

\* const standings = useMemo(() => buildStandings({ drivers, .. }), [..]):
\* computed on the first render and again once a list has changed.
Standings ==
    /\ scStandings = NoStandings
    /\ scStandings' = buildStandings(build, drivers, teams, events, results)
    /\ UNCHANGED formVars
    /\ UNCHANGED seasonVars
    /\ UNCHANGED totalVars
    /\ UNCHANGED panelVars
    /\ UNCHANGED fileVars
    /\ UNCHANGED errorVars
    /\ UNCHANGED trendVars
    /\ UNCHANGED <<appVars, call, pointVars, normVars, scEvent, scEntries,
                   scScored, scPrior>>

\* deleteDriver(id); the standings are due again.
DeleteDriver(id) ==
    /\ call = "idle" /\ scStandings # NoStandings
    /\ call' = "deleteDriver"
    /\ drivers' = deleteDriver(drivers, id)
    /\ scPrior' = scStandings
    /\ scStandings' = NoStandings
    /\ UNCHANGED formVars
    /\ UNCHANGED seasonVars
    /\ UNCHANGED totalVars
    /\ UNCHANGED panelVars
    /\ UNCHANGED fileVars
    /\ UNCHANGED errorVars
    /\ UNCHANGED trendVars
    /\ UNCHANGED <<build, teams, events, results, tab, handlerVars, pointVars,
                   normVars, scEvent, scEntries, scScored>>

\* The same events in another order; the standings are due again.
ReorderEvents(list) ==
    /\ call = "idle" /\ scStandings # NoStandings
    /\ list # events
    /\ call' = "reorderEvents"
    /\ events' = list
    /\ scPrior' = scStandings
    /\ scStandings' = NoStandings
    /\ UNCHANGED formVars
    /\ UNCHANGED seasonVars
    /\ UNCHANGED totalVars
    /\ UNCHANGED panelVars
    /\ UNCHANGED fileVars
    /\ UNCHANGED errorVars
    /\ UNCHANGED trendVars
    /\ UNCHANGED <<build, teams, drivers, results, tab, handlerVars, pointVars,
                   normVars, scEvent, scEntries, scScored>>

\* The same drivers in another order; the standings are due again.
ReorderDrivers(list) ==
    /\ call = "idle" /\ scStandings # NoStandings
    /\ list # drivers
    /\ call' = "reorderDrivers"
    /\ drivers' = list
    /\ scPrior' = scStandings
    /\ scStandings' = NoStandings
    /\ UNCHANGED formVars
    /\ UNCHANGED seasonVars
    /\ UNCHANGED totalVars
    /\ UNCHANGED panelVars
    /\ UNCHANGED fileVars
    /\ UNCHANGED errorVars
    /\ UNCHANGED trendVars
    /\ UNCHANGED <<build, teams, events, results, tab, handlerVars, pointVars,
                   normVars, scEvent, scEntries, scScored>>

NextStandings ==
    \/ Standings
    \/ \E d \in SeqToSet(drivers) : DeleteDriver(d.id)
    \/ \E list \in Reorderings(events) : ReorderEvents(list)
    \/ \E list \in Reorderings(drivers) : ReorderDrivers(list)

SpecStandings == InitStandings /\ [][NextStandings]_vars

(***************************************************************************)
(* AnalyticsPanel (part_000): the events by round, the drivers' statistics *)
(* and their cumulative series                                             *)
(***************************************************************************)
\* The comparator on the round fields as they are.
roundAfterAsStored(a, b) == Positive(Minus(a.round, b.round))

\* (a,b) => (a.round ?? 0) - (b.round ?? 0)
roundAfter(a, b) ==
    Positive(Minus(Coalesce(a.round, Num(0)), Coalesce(b.round, Num(0))))
roundOrder(list) ==
    {pair \in SeqToSet(list) \X SeqToSet(list) : roundAfter(pair[1], pair[2])}

\* [...events].sort(..)
sortEventsByRound(eventList) ==
    Only({SortBy(seq, roundOrder(seq)) : seq \in {eventList}})

\* The Map from an event id to the results of the event, in list order.
groupResultsByEvent(resultList) ==
    [id \in {r.eventId : r \in SeqToSet(resultList)} |->
        entriesOfEvent(resultList, id)]

\* arr[index], index counted from 0: undefined past the end and for a hole.
ElementAt(arr, index) ==
    IF index + 1 <= Len(arr) THEN arr[index + 1] ELSE Undefined

\* arr[index] = v: the array grows to hold the index and the places it
\* skips are holes.
ArraySet(arr, index, v) ==
    [i \in 1..(IF index + 1 > Len(arr) THEN index + 1 ELSE Len(arr)) |->
        IF i = index + 1 THEN v
        ELSE IF i <= Len(arr) THEN arr[i] ELSE Undefined]

\* The body of `for (const row of entries)` for one scored row of the event
\* at index idx.
analyticsRow(acc, row, idx) ==
    IF row.driverId \notin DOMAIN acc.driverStats THEN acc
    ELSE LET id  == row.driverId
             ds  == acc.driverStats[id]
             cum == Plus(acc.cumByDriver[id], row.pts)
         IN  [driverStats |->
                 [acc.driverStats EXCEPT ![id] =
                     [ds EXCEPT !.points = Plus(ds.points, row.pts),
                                !.dnfs = IF row.status = "DNF"
                                         THEN ds.dnfs + 1 ELSE ds.dnfs,
                                !.finishes = Append(ds.finishes, row.pos),
                                !.podiums = IF LessEq(row.pos, Num(3))
                                            THEN ds.podiums + 1
                                            ELSE ds.podiums]],
              cumByDriver |-> [acc.cumByDriver EXCEPT ![id] = cum],
              driverCumSeries |->
                 [acc.driverCumSeries EXCEPT ![id] =
                     ArraySet(acc.driverCumSeries[id], idx, cum)]]

RECURSIVE analyticsRows(_, _, _)
analyticsRows(acc, rows, idx) ==
    IF rows = <<>> THEN acc
    ELSE Only({analyticsRows(next, Tail(rows), idx) :
               next \in {analyticsRow(acc, Head(rows), idx)}})

\* The fill that starts a driver without a result in the event at 0.
analyticsFillZero(acc, idx) ==
    [acc EXCEPT !.driverCumSeries =
        [id \in DOMAIN acc.driverCumSeries |->
            LET arr == acc.driverCumSeries[id]
            IN  IF ElementAt(arr, idx) \in {Undefined, Null}
                THEN ArraySet(arr, idx, Num(0))
                ELSE arr]]

\* for (const d of drivers) { if (arr[idx] == null) arr[idx] = cum || 0 }
analyticsFill(acc, idx) ==
    [acc EXCEPT !.driverCumSeries =
        [id \in DOMAIN acc.driverCumSeries |->
            LET arr == acc.driverCumSeries[id]
            IN  IF ElementAt(arr, idx) \in {Undefined, Null}
                THEN ArraySet(arr, idx, OrElse(acc.cumByDriver[id], Num(0)))
                ELSE arr]]

\* eventsSorted.forEach((e, idx) => ..), from index idx on.
RECURSIVE analyticsEvents(_, _, _, _)
analyticsEvents(acc, sorted, resultsByEvent, idx) ==
    IF idx >= Len(sorted) THEN acc
    ELSE LET e       == sorted[idx + 1]
             stored  == IF e.id \in DOMAIN resultsByEvent
                        THEN resultsByEvent[e.id] ELSE <<>>
             entries == scoreEventEntries(e, stored)
         IN  Only({analyticsEvents(next, sorted, resultsByEvent, idx + 1) :
                   next \in {analyticsFill(analyticsRows(acc, entries, idx),
                                           idx)}})

RECURSIVE SumOfFinishes(_)
SumOfFinishes(fins) ==
    IF fins = <<>> THEN 0 ELSE ToNumber(Head(fins)).n + SumOfFinishes(Tail(fins))

\* fins.length ? Number(avg.toFixed(2)) : null; the average is kept in
\* hundredths (t = "hundredths"), rounded half up as toFixed rounds.
averageFinish(fins) ==
    IF fins = <<>> THEN Null
    ELSE [t |-> "hundredths",
          n |-> (2 * 10 * SumOfFinishes(fins) + Len(fins))
                    \div (2 * Len(fins)),
          s |-> <<>>]

\* The memo of AnalyticsPanel: { driverStats, driverCumSeries, rounds }
analyticsMemo(driverList, sorted, resultsByEvent) ==
    LET byId  == driverById(driverList)
        init  == [driverStats |->
                     [id \in DOMAIN byId |->
                         [name |-> byId[id].name, teamId |-> byId[id].teamId,
                          points |-> Num(0), finishes |-> <<>>, dnfs |-> 0,
                          podiums |-> 0]],
                  cumByDriver |-> [id \in DOMAIN byId |-> Num(0)],
                  driverCumSeries |-> [id \in DOMAIN byId |-> <<>>]]
    IN  Only({[driverStats |->
                  [id \in DOMAIN byId |->
                      [name |-> final.driverStats[id].name,
                       teamId |-> final.driverStats[id].teamId,
                       points |-> final.driverStats[id].points,
                       finishes |-> final.driverStats[id].finishes,
                       dnfs |-> final.driverStats[id].dnfs,
                       podiums |-> final.driverStats[id].podiums,
                       avgFinish |->
                           averageFinish(final.driverStats[id].finishes)]],
               driverCumSeries |-> final.driverCumSeries,
               rounds |-> [i \in 1..Len(sorted) |->
                              Coalesce(sorted[i].round, Num(0))]] :
              final \in {analyticsEvents(start, sorted, resultsByEvent, 0) :
                            start \in {init}}})

\* (a,b) => b.points - a.points || a.name.localeCompare(b.name)
driverRowAfter(a, b) ==
    Positive(OrElse(Minus(b.points, a.points), localeCompare(a.name, b.name)))

\* The em dash.
Dash == "--"

\* teams.find(t => t.id === teamId)?.name || DASH, DASH the em dash the
\* panel shows for a missing value
teamNameOf(teamList, teamId) ==
    LET found == {i \in 1..Len(teamList) : teamList[i].id = teamId}
    IN  IF found = {} THEN Dash
        ELSE LET first == CHOOSE i \in found : \A j \in found : i <= j
             IN  IF teamList[first].name = "" THEN Dash
                 ELSE teamList[first].name

\* const driverRows = useMemo(() => drivers.map(d => ..).sort(..))
analyticsDriverRows(driverList, teamList, driverStats) ==
    LET rows == [i \in 1..Len(driverList) |->
                    LET d == driverList[i]
                        s == driverStats[d.id]
                    IN  [id |-> d.id, name |-> d.name,
                         team |-> teamNameOf(teamList, d.teamId),
                         points |-> OrElse(s.points, Num(0)),
                         avgFinish |-> Coalesce(s.avgFinish, Str(<<Dash>>)),
                         podiums |-> s.podiums, dnfs |-> s.dnfs]]
    IN  Only({SortBy(seq, {pair \in SeqToSet(seq) \X SeqToSet(seq) :
                              driverRowAfter(pair[1], pair[2])}) :
              seq \in {rows}})

\* drivers.find(x => x.id === id)?.teamId
teamIdOfDriver(driverList, id) ==
    LET found == {i \in 1..Len(driverList) : driverList[i].id = id}
    IN  IF found = {} THEN ""
        ELSE driverList[CHOOSE i \in found : \A j \in found : i <= j].teamId

\* The total of a team set to the points of the row at hand.
teamTotalsStepOverwrite(totals, teamId, points) ==
    [totals EXCEPT ![teamId] = OrElse(points, Num(0))]

\* totals.set(teamId, (totals.get(teamId) || 0) + (d.points || 0))
teamTotalsStep(totals, teamId, points) ==
    [totals EXCEPT ![teamId] =
        Plus(OrElse(@, Num(0)), OrElse(points, Num(0)))]

\* for (const d of driverRows) { .. if (!teamId) continue; totals.set(..) }
RECURSIVE teamTotalsMap(_, _, _)
teamTotalsMap(totals, rows, driverList) ==
    IF rows = <<>> THEN totals
    ELSE LET teamId == teamIdOfDriver(driverList, Head(rows).id)
         IN  IF teamId = ""
             THEN teamTotalsMap(totals, Tail(rows), driverList)
             ELSE Only({teamTotalsMap(next, Tail(rows), driverList) :
                        next \in {teamTotalsStep(totals, teamId,
                                                 Head(rows).points)}})

\* (a,b) => b.points - a.points || a.name.localeCompare(b.name)
teamTotalAfter(a, b) ==
    Positive(OrElse(Minus(b.points, a.points), localeCompare(a.name, b.name)))

\* const teamTotals = useMemo(() => { .. return teams.map(..).sort(..) })
teamTotals(teamList, rows, driverList) ==
    LET keys   == {t.id : t \in SeqToSet(teamList)}
                  \cup {d.teamId : d \in SeqToSet(driverList)}
        totals == teamTotalsMap([id \in keys |-> Undefined], rows, driverList)
        list   == [i \in 1..Len(teamList) |->
                      [id |-> teamList[i].id, name |-> teamList[i].name,
                       points |-> OrElse(totals[teamList[i].id], Num(0))]]
    IN  Only({SortBy(seq, {pair \in SeqToSet(seq) \X SeqToSet(seq) :
                              teamTotalAfter(pair[1], pair[2])}) :
              seq \in {list}})

\* Three events whose rounds may be missing, negative or equal.
AnalyticsRounds == {Undefined, Null, Num(-1), Num(1), Num(2)}
AnalyticsEvents ==
    {<<Event("e1", "Ferrari", r1, "GP"), Event("e2", "McLaren", r2, "Sprint"),
       Event("e3", "Ferrari", r3, "GP")>> :
        r1 \in AnalyticsRounds, r2 \in AnalyticsRounds, r3 \in AnalyticsRounds}

\* Stored entries of the first two events: two of one driver in the GP, one
\* of a driver who was deleted.
AnalyticsEntries ==
    {Entry("e1", "d1", Num(1), "FIN", Bool(TRUE)),
     Entry("e1", "d1", Num(2), "DNF", Bool(FALSE)),
     Entry("e1", "d2", Num(2), "FIN", Bool(FALSE)),
     Entry("e2", "d1", Num(3), "FIN", Bool(FALSE)),
     Entry("e2", "d2", Num(1), "DNF", Bool(FALSE)),
     Entry("e2", "d3", Num(1), "FIN", Bool(FALSE))}

InitAnalytics ==
    /\ build = "part_000"
    /\ teams = ScoreTeams
    /\ drivers = ScoreDrivers
    /\ events \in AnalyticsEvents
    /\ results \in {normalizeResults(list) :
                        list \in SeqsUpTo(AnalyticsEntries, MaxStored)}
    /\ tab = "Analytics"
    /\ prev = <<>> /\ argEventId = "" /\ argEntries = <<>>
    /\ AnalyticsIdle
    /\ NoError
    /\ NoFile
    /\ PanelIdle
    /\ TotalsIdle
    /\ SeasonsIdle
    /\ FormIdle
    /\ call = "idle"
    /\ PointsIdle /\ NormalizeIdle /\ ScoreIdle

\* The two memos of AnalyticsPanel, computed on the first render and again
\* once the events have changed.
Analytics ==
    /\ analytics = NoAnalytics
    /\ eventsSorted' = sortEventsByRound(events)
    /\ analytics' = analyticsMemo(drivers, eventsSorted',
                                  groupResultsByEvent(results))
    /\ driverRowsMemo' = analyticsDriverRows(drivers, teams,
                                             analytics'.driverStats)
    /\ teamTotalsMemo' = teamTotals(teams, driverRowsMemo', drivers)
    /\ UNCHANGED formVars
    /\ UNCHANGED seasonVars
    /\ UNCHANGED panelVars
    /\ UNCHANGED fileVars
    /\ UNCHANGED errorVars
    /\ UNCHANGED <<appVars, call, pointVars, normVars, scoreVars,
                   analyticsPrior>>

\* The same events in another order; the memos are due again.
ReorderAnalyticsEvents(list) ==
    /\ call = "idle" /\ analytics # NoAnalytics
    /\ list # events
    /\ call' = "reorderEvents"
    /\ events' = list
    /\ analyticsPrior' = analytics
    /\ analytics' = NoAnalytics
    /\ eventsSorted' = <<>>
    /\ driverRowsMemo' = <<>> /\ teamTotalsMemo' = <<>>
    /\ UNCHANGED formVars
    /\ UNCHANGED seasonVars
    /\ UNCHANGED panelVars
    /\ UNCHANGED fileVars
    /\ UNCHANGED errorVars
    /\ UNCHANGED <<build, teams, drivers, results, tab, handlerVars, pointVars,
                   normVars, scoreVars>>

NextAnalytics ==
    \/ Analytics
    \/ \E list \in Reorderings(events) : ReorderAnalyticsEvents(list)

SpecAnalytics == InitAnalytics /\ [][NextAnalytics]_vars

(***************************************************************************)
(* One state shown by the Standings tab (buildStandings) and by the        *)
(* Analytics tab (the memos of AnalyticsPanel)                             *)
(***************************************************************************)
\* Two drivers of the first team; the second driver may also have no team
\* or the id of a team that is gone.
AgreementDrivers ==
    {<<Driver("d1", "Alonso", "t1"), Driver("d2", "Bottas", teamId),
       Driver("d3", "Alonso", "t2")>> : teamId \in {"t1", "", "t9"}}

InitAgreement ==
    /\ build = "part_000"
    /\ teams = StandingsTeams
    /\ drivers \in AgreementDrivers
    /\ events \in {<<>>, SubSeq(AppEvents, 1, 1), AppEvents,
                   <<AppEvents[2], AppEvents[1]>>}
    /\ results \in {normalizeResults(list) :
                        list \in SeqsUpTo(StandingsEntries, MaxStored)}
    /\ tab \in {"Standings", "Analytics"}
    /\ prev = <<>> /\ argEventId = "" /\ argEntries = <<>>
    /\ AnalyticsIdle
    /\ NoError
    /\ NoFile
    /\ PanelIdle
    /\ TotalsIdle
    /\ SeasonsIdle
    /\ FormIdle
    /\ call = "idle"
    /\ PointsIdle /\ NormalizeIdle /\ ScoreIdle

\* setTab(t): the tab buttons.  The panel of the tab left is unmounted and
\* the panel of tab t is mounted with the initial values of its useState.
SetTab(t) ==
    /\ tab # t
    /\ tab' = t
    /\ panelEventId' = IF t = "Enter Results" /\ events # <<>>
                       THEN events[1].id ELSE ""
    /\ fastestLapDriverId' = ""
    /\ grid' = IF t = "Enter Results"
               THEN loadGrid(build, results, panelEventId', drivers)
               ELSE <<>>
    /\ formTeamId' = IF t = "Drivers" /\ teams # <<>> THEN teams[1].id ELSE ""
    /\ UNCHANGED seasonVars
    /\ UNCHANGED <<build, teams, drivers, events, results, handlerVars, call,
                   pointVars, normVars, scoreVars, trendVars, errorVars,
                   fileVars, totalVars>>

\* App computes the standings on every render; AnalyticsPanel computes its
\* memos while its tab is shown.
NextAgreement ==
    \/ Standings
    \/ (tab = "Analytics" /\ Analytics)
    \/ \E t \in {"Standings", "Analytics"} : SetTab(t)

SpecAgreement == InitAgreement /\ [][NextAgreement]_vars

(***************************************************************************)
(* Seasons (part_000): meta, the four lists of the active season kept by   *)
(* useSeasonedState, and localStorage.  A commit is one render with the    *)
(* effects it schedules, run in the order the hooks are called with the    *)
(* values of that render; what the effects set shows in the next render.   *)
(***************************************************************************)
MaxUid == 4    \* most ids uid() returns

\* uid(): an id never returned before.
Uids == <<"s1", "s2", "s3", "s4", "s5", "s6">>
uid(n) == Uids[n + 1]

\* `Season ${meta.seasons.length + 1}`
SeasonNames ==
    <<"Season 1", "Season 2", "Season 3", "Season 4", "Season 5", "Season 6">>

Kinds == {"teams", "drivers", "events", "results"}
MetaKey == "f1_seasons_meta"
TabKey  == "f1_tab"
legacyKey(kind) == "f1_" \o kind

\* `${baseKey}_${seasonId || "no-season"}`
seasonKey(kind, seasonId) ==
    "f1_" \o kind \o "_" \o (IF seasonId = "" THEN "no-season" ELSE seasonId)

\* localStorage.setItem(key, JSON.stringify(value)), as JSON.parse reads it
setItem(store, key, value) ==
    [k \in DOMAIN store \cup {key} |-> IF k = key THEN value ELSE store[k]]

\* localStorage.removeItem(key) for each key of keys
removeItems(store, keys) ==
    [k \in DOMAIN store \ keys |-> store[k]]

\* JSON.parse(JSON.stringify(list)) of one of the four lists
jsonList(kind, list) ==
    [i \in 1..Len(list) |->
        IF kind = "events" THEN jsonEvent(list[i])
        ELSE IF kind = "results" THEN jsonEntry(list[i])
        ELSE list[i]]

\* raw ? JSON.parse(raw) : initial
getItemOr(store, key, initial) ==
    IF key \in DOMAIN store THEN store[key] ELSE initial

\* (meta.seasons.find(s => s.id === meta.activeId) || meta.seasons[0])?.id,
\* "" for undefined
activeSeasonId(m) ==
    IF \E i \in 1..Len(m.seasons) : m.seasons[i].id = m.activeId
    THEN m.activeId
    ELSE IF m.seasons # <<>> THEN m.seasons[1].id ELSE ""

\* The values a render shows: the deps of the effects of its commit.
Rendered ==
    [mounted |-> TRUE, meta |-> meta, teams |-> teams, drivers |-> drivers,
     events |-> events, results |-> results, tab |-> tab]

\* Every effect has run for the values the state holds.
Settled == shown = Rendered

\* The migration effect writing the legacy lists under the keys of season id.
migrated(store, id) ==
    LET held == {kind \in Kinds :
                    /\ legacyKey(kind) \in DOMAIN store
                    /\ store[legacyKey(kind)] # Null}
        keys == {seasonKey(kind, id) : kind \in held}
    IN  removeItems(
            [k \in DOMAIN store \cup keys |->
                IF k \in keys
                THEN store[legacyKey(CHOOSE kind \in held :
                                        seasonKey(kind, id) = k)]
                ELSE store[k]],
            {legacyKey(kind) : kind \in Kinds})

\* meta after the migration effect (setMeta with id idA) and the
\* default-season effect (setMeta with id idB) of one commit: the later
\* setMeta replaces the earlier.
singleSeasonMeta(migrate, ensure, idA, idB, m) ==
    IF ensure THEN [seasons |-> <<[id |-> idB, name |-> "Season 1"]>>,
                    activeId |-> idB]
    ELSE IF migrate THEN [seasons |-> <<[id |-> idA, name |-> "Season 1"]>>,
                         activeId |-> idA]
    ELSE m

\* The load effect of useSeasonedState: it reads the key before the save
\* effect of the same hook writes it.
seasonedLoad(store, kind, key, initial) ==
    getItemOr(store, seasonKey(kind, key), initial)

\* One render and the effects of its commit.
Commit ==
    /\ ~Settled
    /\ LET first      == ~shown.mounted
           key        == activeSeasonId(meta)
           \* useStoredState("f1_seasons_meta"): save on [key, state]
           st1        == IF first \/ shown.meta # meta
                         THEN setItem(storage, MetaKey, meta) ELSE storage
           \* the migration effect, on mount
           migrate    == first /\ meta.seasons = <<>>
           idA        == uid(uids)
           st2        == IF migrate THEN migrated(st1, idA) ELSE st1
           used       == IF migrate THEN uids + 1 ELSE uids
           \* the default-season effect, on [meta.seasons?.length]
           ensure     == /\ first \/ Len(shown.meta.seasons) # Len(meta.seasons)
                         /\ meta.seasons = <<>>
           idB        == uid(used)
           \* useSeasonedState x 4: load on [key], save on [key, state]
           keyChanged == first \/ activeSeasonId(shown.meta) # key
           saves      == {kind \in Kinds :
                             \/ keyChanged
                             \/ kind = "teams" /\ shown.teams # teams
                             \/ kind = "drivers" /\ shown.drivers # drivers
                             \/ kind = "events" /\ shown.events # events
                             \/ kind = "results" /\ shown.results # results}
           value      == [kind \in Kinds |->
                             CASE kind = "teams" -> teams
                               [] kind = "drivers" -> drivers
                               [] kind = "events" -> events
                               [] kind = "results" -> results]
           saved      == {seasonKey(kind, key) : kind \in saves}
           st3        == [k \in DOMAIN st2 \cup saved |->
                             IF k \in saved
                             THEN LET kind == CHOOSE kd \in saves :
                                                  seasonKey(kd, key) = k
                                  IN  jsonList(kind, value[kind])
                             ELSE st2[k]]
           \* useStoredState("f1_tab"): save on [key, state]
           st4        == IF first \/ shown.tab # tab
                         THEN setItem(st3, TabKey, tab) ELSE st3
       IN  /\ storage' = st4
           /\ uids' = IF ensure THEN used + 1 ELSE used
           /\ meta' = singleSeasonMeta(migrate, ensure, idA, idB, meta)
           /\ teams' = IF keyChanged
                       THEN seasonedLoad(st2, "teams", key, <<>>)
                       ELSE teams
           /\ drivers' = IF keyChanged
                         THEN seasonedLoad(st2, "drivers", key, <<>>)
                         ELSE drivers
           /\ events' = IF keyChanged
                        THEN seasonedLoad(st2, "events", key, <<>>)
                        ELSE events
           /\ results' = IF keyChanged
                         THEN seasonedLoad(st2, "results", key, <<>>)
                         ELSE results
    /\ shown' = Rendered
    /\ UNCHANGED formVars
    /\ UNCHANGED <<build, tab, handlerVars, call, pointVars, normVars,
                   scoreVars, trendVars, errorVars, fileVars, panelVars,
                   totalVars>>

\* The page is opened again: every useState starts from its initializer.
PageLoad ==
    /\ Settled
    /\ call' = "load"
    /\ meta' = getItemOr(storage, MetaKey, NoMeta)
    /\ teams' = <<>> /\ drivers' = <<>> /\ events' = <<>> /\ results' = <<>>
    /\ tab' = getItemOr(storage, TabKey, "Standings")
    /\ shown' = NotMounted
    /\ UNCHANGED formVars
    /\ UNCHANGED <<build, handlerVars, storage, uids, pointVars, normVars,
                   scoreVars, trendVars, errorVars, fileVars, panelVars,
                   totalVars>>

\* createSeason, the prompt answered with name ("" for none)
CreateSeason(name) ==
    /\ Settled /\ uids < MaxUid
    /\ call' = "createSeason"
    /\ meta' = [seasons |->
                   Append(meta.seasons,
                          [id |-> uid(uids),
                           name |-> IF name = ""
                                    THEN SeasonNames[Len(meta.seasons) + 1]
                                    ELSE name]),
                activeId |-> uid(uids)]
    /\ uids' = uids + 1
    /\ UNCHANGED formVars
    /\ UNCHANGED <<build, teams, drivers, events, results, tab, handlerVars,
                   storage, shown, pointVars, normVars, scoreVars, trendVars,
                   errorVars, fileVars, panelVars, totalVars>>

\* deleteSeason, confirmed (declined it changes nothing)
DeleteSeason ==
    /\ Settled /\ activeSeasonId(meta) # ""
    /\ Len(meta.seasons) = 1 => uids < MaxUid
    /\ call' = "deleteSeason"
    /\ storage' = removeItems(storage, {seasonKey(kind, activeSeasonId(meta)) :
                                           kind \in Kinds})
    /\ LET seasons == FilterSeq(meta.seasons,
                                {x \in SeqToSet(meta.seasons) :
                                    x.id # activeSeasonId(meta)})
       IN  meta' = [seasons |-> seasons,
                    activeId |-> IF seasons # <<>> THEN seasons[1].id ELSE ""]
    /\ UNCHANGED formVars
    /\ UNCHANGED <<build, teams, drivers, events, results, tab, handlerVars,
                   shown, uids, pointVars, normVars, scoreVars, trendVars,
                   errorVars, fileVars, panelVars, totalVars>>

\* switchSeason(id), id picked in the seasons select
SwitchSeason(id) ==
    /\ Settled /\ id # activeSeasonId(meta)
    /\ call' = "switchSeason"
    /\ meta' = [meta EXCEPT !.activeId = id]
    /\ UNCHANGED formVars
    /\ UNCHANGED <<build, teams, drivers, events, results, tab, handlerVars,
                   storage, shown, uids, pointVars, normVars, scoreVars,
                   trendVars, errorVars, fileVars, panelVars, totalVars>>

NextSeasons ==
    \/ Commit
    \/ PageLoad
    \/ \E name \in {"", "2025"} : CreateSeason(name)
    \/ DeleteSeason
    \/ \E i \in 1..Len(meta.seasons) : SwitchSeason(meta.seasons[i].id)

\* The lists the single-season build left under the legacy keys.
LegacyData ==
    [teams |-> AppTeams, drivers |-> AppDrivers, events |-> AppEvents,
     results |-> <<Entry("e1", "d1", Num(1), "FIN", Bool(TRUE)),
                   Entry("e2", "d2", Num(2), "FIN", Bool(FALSE))>>]

\* The first run of the multi-season build: no meta, the legacy keys hold
\* the lists, the tab may be stored.
InitMigration ==
    /\ build = "part_000"
    /\ storage \in
          {[k \in {legacyKey(kind) : kind \in Kinds} \cup tabs |->
               IF k = TabKey THEN "Standings"
               ELSE LegacyData[CHOOSE kind \in Kinds : legacyKey(kind) = k]] :
           tabs \in {{}, {TabKey}}}
    /\ meta = NoMeta
    /\ teams = <<>> /\ drivers = <<>> /\ events = <<>> /\ results = <<>>
    /\ tab = "Standings"
    /\ shown = NotMounted /\ uids = 0
    /\ prev = <<>> /\ argEventId = "" /\ argEntries = <<>>
    /\ AnalyticsIdle
    /\ NoError
    /\ NoFile
    /\ PanelIdle
    /\ TotalsIdle
    /\ FormIdle
    /\ call = "idle"
    /\ PointsIdle /\ NormalizeIdle /\ ScoreIdle

SpecMigration == InitMigration /\ [][NextSeasons]_vars

\* The lists of the two seasons the store holds when the page is opened.
SeasonData ==
    [s1 |-> [teams |-> <<Team("t1", "Ferrari")>>,
             drivers |-> <<Driver("d1", "Alonso", "t1")>>,
             events |-> <<AppEvents[1]>>,
             results |-> <<Entry("e1", "d1", Num(1), "FIN", Bool(TRUE))>>],
     s2 |-> [teams |-> <<Team("t2", "McLaren")>>,
             drivers |-> <<Driver("d2", "Bottas", "t2")>>,
             events |-> <<AppEvents[2]>>,
             results |-> <<Entry("e2", "d2", Num(2), "FIN", Bool(FALSE))>>]]

\* The page is opened on a store that holds two seasons and their lists.
InitSeasons ==
    /\ build = "part_000"
    /\ meta \in {[seasons |-> <<[id |-> "s1", name |-> "Season 1"],
                                [id |-> "s2", name |-> "Season 2"]>>,
                  activeId |-> id] : id \in {"s1", "s2"}}
    /\ tab \in {"Standings", "Analytics"}
    /\ storage =
          [k \in {MetaKey, TabKey}
                 \cup {seasonKey(kind, id) : kind \in Kinds,
                                             id \in {"s1", "s2"}} |->
              IF k = MetaKey THEN meta
              ELSE IF k = TabKey THEN tab
              ELSE LET at == CHOOSE pair \in Kinds \X {"s1", "s2"} :
                                 seasonKey(pair[1], pair[2]) = k
                   IN  SeasonData[at[2]][at[1]]]
    /\ teams = <<>> /\ drivers = <<>> /\ events = <<>> /\ results = <<>>
    /\ shown = NotMounted /\ uids = 2
    /\ prev = <<>> /\ argEventId = "" /\ argEntries = <<>>
    /\ AnalyticsIdle
    /\ NoError
    /\ NoFile
    /\ PanelIdle
    /\ TotalsIdle
    /\ FormIdle
    /\ call = "idle"
    /\ PointsIdle /\ NormalizeIdle /\ ScoreIdle

SpecSeasons == InitSeasons /\ [][NextSeasons]_vars

(***************************************************************************)
(* EventsPanel and the handlers addEvent, updateEvent and deleteEvent,     *)
(* with the results entered in EnterResultsPanel                           *)
(***************************************************************************)
MaxEvents == 2    \* most events added

\* uid() for the n-th id of an event
EventUids == <<"e1", "e2", "e3", "e4", "e5">>

\* { ...record, ...patch }: the keys of patch override those of record
patched(record, patch) ==
    [key \in DOMAIN record |->
        IF key \in DOMAIN patch THEN patch[key] ELSE record[key]]

\* (a,b) => a.round - b.round
addEventAfter(a, b) == Positive(Minus(a.round, b.round))

\* [...prev, { id: uid(), type: "GP", ...evt, round }].sort(..), round being
\* evt.round ?? (prev.length + 1)
addEvent(eventList, id, evt) ==
    Only({SortBy(seq, {pair \in SeqToSet(seq) \X SeqToSet(seq) :
                          addEventAfter(pair[1], pair[2])}) :
          seq \in {Append(eventList,
                          Event(id, evt.name, Num(Len(eventList) + 1),
                                evt.type))}})

\* prev.map(e => e.id === id ? { ...e, ...patch } : e)
updateEvent(eventList, id, patch) ==
    [i \in 1..Len(eventList) |->
        IF eventList[i].id = id THEN patched(eventList[i], patch)
        ELSE eventList[i]]

\* setEvents(prev => prev.filter(e => e.id !== id))
deleteEvent(eventList, id) ==
    FilterSeq(eventList, {e \in SeqToSet(eventList) : e.id # id})

\* The results kept as they are.
deleteEventResultsKept(stored, id) == stored

\* setResults(prev => prev.filter(r => r.eventId !== id))
deleteEventResults(stored, id) ==
    FilterSeq(stored, {r \in SeqToSet(stored) : r.eventId # id})

InitEvents ==
    /\ build \in Builds
    /\ teams = AppTeams /\ drivers = <<AppDrivers[1]>>
    /\ events = <<>> /\ results = <<>>
    /\ tab = "Events"
    /\ prev = <<>> /\ argEventId = "" /\ argEntries = <<>>
    /\ AnalyticsIdle
    /\ NoError
    /\ NoFile
    /\ PanelIdle
    /\ TotalsIdle
    /\ SeasonsIdle
    /\ FormIdle
    /\ call = "idle"
    /\ PointsIdle /\ NormalizeIdle /\ ScoreIdle

\* The Add Event button, the form holding a name and a type.
AddEvent(evt) ==
    /\ uids < MaxEvents
    /\ call' = "addEvent"
    /\ events' = addEvent(events, EventUids[uids + 1], evt)
    /\ uids' = uids + 1
    /\ prev' = <<>> /\ argEventId' = "" /\ argEntries' = <<>>
    /\ UNCHANGED <<build, teams, drivers, results, tab, meta, storage, shown,
                   pointVars, normVars, scoreVars, trendVars, errorVars,
                   fileVars, panelVars, totalVars, formVars>>

\* An input of the row of event id: updateEvent(id, patch)
UpdateEvent(id, patch) ==
    /\ updateEvent(events, id, patch) # events
    /\ call' = "updateEvent"
    /\ events' = updateEvent(events, id, patch)
    /\ prev' = <<>> /\ argEventId' = "" /\ argEntries' = <<>>
    /\ UNCHANGED <<build, teams, drivers, results, tab, seasonVars, pointVars,
                   normVars, scoreVars, trendVars, errorVars, fileVars,
                   panelVars, totalVars, formVars>>

\* The Delete button of the row of event id: deleteEvent(id)
DeleteEvent(id) ==
    /\ call' = "deleteEvent"
    /\ events' = deleteEvent(events, id)
    /\ results' = deleteEventResults(results, id)
    /\ prev' = results /\ argEventId' = id /\ argEntries' = <<>>
    /\ UNCHANGED <<build, teams, drivers, tab, seasonVars, pointVars,
                   normVars, scoreVars, trendVars, errorVars, fileVars,
                   panelVars, totalVars, formVars>>

\* Events are edited in the Events tab and results are saved in the Enter
\* Results tab.
NextEvents ==
    \/ \E t \in {"Events", "Enter Results"} : SetTab(t)
    \/ \E type \in {"GP", "Sprint"} :
          tab = "Events" /\ AddEvent([name |-> "Ferrari", type |-> type])
    \/ \E i \in 1..Len(events) :
          \E patch \in {[round |-> Num(1)], [type |-> "Sprint"]} :
              tab = "Events" /\ UpdateEvent(events[i].id, patch)
    \/ \E i \in 1..Len(events) : tab = "Events" /\ DeleteEvent(events[i].id)
    \/ \E idx \in 1..Len(grid) :
          \E d \in {""} \cup {drivers[i].id : i \in 1..Len(drivers)} :
              tab = "Enter Results" /\ events # <<>> /\ SetGridDriver(idx, d)
    \/ \E i \in 1..Len(events) :
          tab = "Enter Results" /\ SetEventId(events[i].id)
    \/ tab = "Enter Results" /\ events # <<>> /\ SaveAll

SpecEvents == InitEvents /\ [][NextEvents]_vars

(***************************************************************************)
(* TeamsPanel and DriversPanel with the handlers addTeam, updateTeam,      *)
(* deleteTeam, addDriver, updateDriver and deleteDriver.  The teams change *)
(* in the Teams tab only, DriversPanel is mounted anew with the tab, and   *)
(* its effect on [teams] finds the team it holds.                          *)
(***************************************************************************)
MaxRoster == 3    \* most teams and drivers added together

\* uid() for the n-th id, of a team and of a driver
TeamUids   == <<"t1", "t2", "t3", "t4", "t5">>
DriverUids == <<"d1", "d2", "d3", "d4", "d5">>

\* [...prev, { id: uid(), color: "", ...team }]
addTeam(teamList, id, team) == Append(teamList, Team(id, team.name))

\* prev.map(t => t.id === id ? { ...t, ...patch } : t)
updateTeam(teamList, id, patch) ==
    [i \in 1..Len(teamList) |->
        IF teamList[i].id = id THEN patched(teamList[i], patch)
        ELSE teamList[i]]

\* setTeams(prev => prev.filter(t => t.id !== id))
deleteTeam(teamList, id) ==
    FilterSeq(teamList, {t \in SeqToSet(teamList) : t.id # id})

\* The drivers kept as they are.
detachDriversNone(driverList, id) == driverList

\* setDrivers(prev => prev.map(d => d.teamId === id ? {...d, teamId: ""} : d))
detachDrivers(driverList, id) ==
    [i \in 1..Len(driverList) |->
        IF driverList[i].teamId = id
        THEN [driverList[i] EXCEPT !.teamId = ""]
        ELSE driverList[i]]

\* [...prev, { id: uid(), country: "", teamId: "", ...driver }]
addDriver(driverList, id, driver) ==
    Append(driverList, Driver(id, driver.name, driver.teamId))

\* prev.map(d => d.id === id ? { ...d, ...patch } : d)
updateDriver(driverList, id, patch) ==
    [i \in 1..Len(driverList) |->
        IF driverList[i].id = id THEN patched(driverList[i], patch)
        ELSE driverList[i]]

\* The values of a team select: no team and the teams there are.
TeamOptions == {""} \cup {teams[i].id : i \in 1..Len(teams)}

InitRoster ==
    /\ build \in Builds
    /\ teams = <<>> /\ drivers = <<>>
    /\ events = AppEvents
    /\ results = <<Entry("e1", "d2", Num(1), "FIN", Bool(TRUE))>>
    /\ tab = "Teams"
    /\ prev = <<>> /\ argEventId = "" /\ argEntries = <<>>
    /\ AnalyticsIdle
    /\ NoError
    /\ NoFile
    /\ PanelIdle
    /\ TotalsIdle
    /\ SeasonsIdle
    /\ FormIdle
    /\ call = "idle"
    /\ PointsIdle /\ NormalizeIdle /\ ScoreIdle

\* The Add Team button, the form holding a name.
AddTeam(name) ==
    /\ tab = "Teams" /\ uids < MaxRoster
    /\ call' = "addTeam"
    /\ teams' = addTeam(teams, TeamUids[uids + 1], [name |-> name])
    /\ uids' = uids + 1
    /\ UNCHANGED <<build, drivers, events, results, tab, handlerVars, meta,
                   storage, shown, pointVars, normVars, scoreVars, trendVars,
                   errorVars, fileVars, panelVars, totalVars, formVars>>

\* The name input of the row of team id: updateTeam(id, patch)
UpdateTeam(id, patch) ==
    /\ tab = "Teams" /\ updateTeam(teams, id, patch) # teams
    /\ call' = "updateTeam"
    /\ teams' = updateTeam(teams, id, patch)
    /\ UNCHANGED <<build, drivers, events, results, tab, handlerVars,
                   seasonVars, pointVars, normVars, scoreVars, trendVars,
                   errorVars, fileVars, panelVars, totalVars, formVars>>

\* The Delete button of the row of team id: deleteTeam(id)
DeleteTeam(id) ==
    /\ tab = "Teams"
    /\ call' = "deleteTeam"
    /\ teams' = deleteTeam(teams, id)
    /\ drivers' = detachDrivers(drivers, id)
    /\ UNCHANGED <<build, events, results, tab, handlerVars, seasonVars,
                   pointVars, normVars, scoreVars, trendVars, errorVars,
                   fileVars, panelVars, totalVars, formVars>>

\* The team select of the Add Driver form.
SetTeamId(id) ==
    /\ tab = "Drivers" /\ id # formTeamId
    /\ call' = "setTeamId"
    /\ formTeamId' = id
    /\ UNCHANGED <<build, teams, drivers, events, results, tab, handlerVars,
                   seasonVars, pointVars, normVars, scoreVars, trendVars,
                   errorVars, fileVars, panelVars, totalVars>>

\* The Add Driver button, the form holding a name and the team chosen.
AddDriver(name) ==
    /\ tab = "Drivers" /\ uids < MaxRoster
    /\ call' = "addDriver"
    /\ drivers' = addDriver(drivers, DriverUids[uids + 1],
                            [name |-> name, teamId |-> formTeamId])
    /\ uids' = uids + 1
    /\ UNCHANGED <<build, teams, events, results, tab, handlerVars, meta,
                   storage, shown, pointVars, normVars, scoreVars, trendVars,
                   errorVars, fileVars, panelVars, totalVars, formVars>>

\* An input of the row of driver id: updateDriver(id, patch)
UpdateDriver(id, patch) ==
    /\ tab = "Drivers" /\ updateDriver(drivers, id, patch) # drivers
    /\ call' = "updateDriver"
    /\ drivers' = updateDriver(drivers, id, patch)
    /\ UNCHANGED <<build, teams, events, results, tab, handlerVars,
                   seasonVars, pointVars, normVars, scoreVars, trendVars,
                   errorVars, fileVars, panelVars, totalVars, formVars>>

\* The Delete button of the row of driver id: deleteDriver(id)
DeleteDriverRow(id) ==
    /\ tab = "Drivers"
    /\ call' = "deleteDriver"
    /\ drivers' = deleteDriver(drivers, id)
    /\ UNCHANGED <<build, teams, events, results, tab, handlerVars,
                   seasonVars, pointVars, normVars, scoreVars, trendVars,
                   errorVars, fileVars, panelVars, totalVars, formVars>>

NextRoster ==
    \/ \E t \in {"Teams", "Drivers"} : SetTab(t)
    \/ AddTeam("Ferrari")
    \/ \E i \in 1..Len(teams) : UpdateTeam(teams[i].id, [name |-> "McLaren"])
    \/ \E i \in 1..Len(teams) : DeleteTeam(teams[i].id)
    \/ \E id \in TeamOptions : SetTeamId(id)
    \/ AddDriver("Alonso")
    \/ \E i \in 1..Len(drivers) :
          \E patch \in {[name |-> "Bottas"]}
                       \cup {[teamId |-> id] : id \in TeamOptions} :
              UpdateDriver(drivers[i].id, patch)
    \/ \E i \in 1..Len(drivers) : DeleteDriverRow(drivers[i].id)

SpecRoster == InitRoster /\ [][NextRoster]_vars

(***************************************************************************)
(* normalizeResults and buildStandings applied to records with missing     *)
(* fields.  undefined.localeCompare(..) is a TypeError.                    *)
(***************************************************************************)
\* a.eventId.localeCompare(b.eventId)
normalizeCompareThrows(a, b) == a.eventId = Missing

\* driverCompare: a.driver.name.localeCompare(..) is reached when the four
\* keys before it are 0 or NaN.
driverCompareThrows(a, b) ==
    /\ ~Truthy(Minus(b.points, a.points))
    /\ ~Truthy(Num(b.wins - a.wins))
    /\ ~Truthy(Num(b.podiums - a.podiums))
    /\ ~Truthy(Minus(a.bestFinish, b.bestFinish))
    /\ a.driver.name = Missing

\* b.points - a.points || a.team.name.localeCompare(b.team.name)
teamCompareThrows(a, b) ==
    ~Truthy(Minus(b.points, a.points)) /\ a.team.name = Missing

\* Whether array.sort(comparefn) throws, throwing holding the pairs <<a, b>>
\* on which comparefn(a, b) throws.  The engine chooses which pairs of
\* elements it passes and in which order: the sort throws when every call
\* it can make throws, returns when none does, and may do either otherwise.
SortThrows(array, throwing) ==
    LET pairs == {pair \in (1..Len(array)) \X (1..Len(array)) :
                     pair[1] # pair[2]}
        bad   == {pair \in pairs :
                     <<array[pair[1]], array[pair[2]]>> \in throwing}
    IN  IF bad = {} THEN {FALSE}
        ELSE IF bad = pairs THEN {TRUE} ELSE {TRUE, FALSE}

\* The ways a call of normalizeResults can end.
normalizeOutcomes(list) ==
    LET mapped == normalizeMapped(list)
    IN  {[thrown |-> IF throws THEN "TypeError" ELSE "",
          value  |-> IF throws THEN <<>> ELSE normalizeResults(list)] :
            throws \in SortThrows(mapped,
                          {pair \in SeqToSet(mapped) \X SeqToSet(mapped) :
                              normalizeCompareThrows(pair[1], pair[2])})}

\* The ways a call of buildStandings can end.
standingsOutcomes(b, driverList, teamList, eventList, resultList) ==
    UNION {{[thrown |-> IF byDriver \/ byTeam THEN "TypeError" ELSE "",
             value  |-> IF byDriver \/ byTeam THEN NoStandings ELSE built] :
                byDriver \in SortThrows(built.drivers,
                    {pair \in SeqToSet(built.drivers)
                              \X SeqToSet(built.drivers) :
                        driverCompareThrows(pair[1], pair[2])}),
                byTeam \in SortThrows(built.teams,
                    {pair \in SeqToSet(built.teams) \X SeqToSet(built.teams) :
                        teamCompareThrows(pair[1], pair[2])})} :
           built \in {buildStandings(b, driverList, teamList, eventList,
                                     resultList)}}

\* Records as a file or the storage may hold them: results without eventId,
\* position or status, drivers and teams without name.
MalformedEntries ==
    {Entry(Missing, "d1", Undefined, NoStatus, Undefined),
     Entry(Missing, "d2", Num(2), "DNF", Bool(TRUE)),
     Entry("e1", "d1", Num(1), "FIN", Bool(TRUE))}
MalformedDrivers ==
    {<<Driver("d1", n1, "t1"), Driver("d2", n2, "")>> :
        n1 \in {"Alonso", Missing}, n2 \in {"Bottas", Missing}}
MalformedTeams ==
    {<<Team("t1", n1), Team("t2", n2)>> :
        n1 \in {"Ferrari", Missing}, n2 \in {"McLaren", Missing}}

InitMalformed ==
    /\ build \in Builds
    /\ teams \in MalformedTeams
    /\ drivers \in MalformedDrivers
    /\ events = AppEvents
    /\ results \in {<<>>, <<Entry("e1", "d1", Num(1), "FIN", Bool(TRUE))>>}
    /\ tab = "Standings"
    /\ prev = <<>> /\ argEventId = "" /\ argEntries = <<>>
    /\ AnalyticsIdle
    /\ NoError
    /\ NoFile
    /\ PanelIdle
    /\ TotalsIdle
    /\ SeasonsIdle
    /\ FormIdle
    /\ call = "idle"
    /\ PointsIdle /\ ScoreIdle
    /\ rawList \in SeqsUpTo(MalformedEntries, MaxRaw)
    /\ normList = <<>>

NormalizeMalformed ==
    /\ call = "idle"
    /\ call' = "normalizeResults"
    /\ \E out \in normalizeOutcomes(rawList) :
          thrown' = out.thrown /\ normList' = out.value
    /\ UNCHANGED formVars
    /\ UNCHANGED seasonVars
    /\ UNCHANGED totalVars
    /\ UNCHANGED panelVars
    /\ UNCHANGED fileVars
    /\ UNCHANGED <<appVars, pointVars, rawList, scoreVars, trendVars>>

BuildStandingsMalformed ==
    /\ call = "idle"
    /\ call' = "buildStandings"
    /\ \E out \in standingsOutcomes(build, drivers, teams, events, results) :
          thrown' = out.thrown /\ scStandings' = out.value
    /\ UNCHANGED formVars
    /\ UNCHANGED seasonVars
    /\ UNCHANGED totalVars
    /\ UNCHANGED panelVars
    /\ UNCHANGED fileVars
    /\ UNCHANGED <<appVars, pointVars, normVars, scEvent, scEntries, scScored,
                   scPrior, trendVars>>

NextMalformed == NormalizeMalformed \/ BuildStandingsMalformed
SpecMalformed == InitMalformed /\ [][NextMalformed]_vars

(***************************************************************************)
(* Properties of the points table and of the event scorer                  *)
(***************************************************************************)
ClaimedRaceTable   == <<25, 18, 15, 12, 10, 8, 6, 4, 2, 1>>
ClaimedSprintTable == <<8, 7, 6, 5, 4, 3, 2, 1>>

\* The points the specification gives integer position p in an event.
ClaimedPoints(p, type) ==
    IF type = "Sprint"
    THEN (IF p >= 1 /\ p <= 8 THEN ClaimedSprintTable[p] ELSE 0)
    ELSE (IF p >= 1 /\ p <= 10 THEN ClaimedRaceTable[p] ELSE 0)

\* C1: for every integer position computePointsFor returns the entry of
\* the fixed table: GP positions 1..10 give 25,18,15,12,10,8,6,4,2,1 and
\* every other position 0; Sprint positions 1..8 give 8..1 and every other 0.
PointsMatchTable ==
    (call = "computePointsFor" /\ IsInteger(argPosition))
        => retPoints = Num(ClaimedPoints(IntOf(argPosition), argType))

PointsMatchTableWitness ==
    /\ call = "computePointsFor"
    /\ argType = "GP" /\ argPosition = Num(10) /\ retPoints = Num(1)

\* The bonus the specification gives entry r: kind GP, flag set, position <= 10.
ClaimedBonus(r, type) ==
    IF type = "GP" /\ r.fastestLap = Bool(TRUE) /\ IntOf(r.position) <= 10
    THEN 1 ELSE 0

\* The base points the specification gives: the table if FIN, else 0.
ClaimedBase(position, status, type) ==
    IF status = "FIN" THEN ClaimedPoints(IntOf(position), type) ELSE 0

Scored == call \in {"scoreEventEntries", "buildStandings"}

\* The base points and the bonus the specification credits driver id for
\* the scored event.
ClaimedBaseOf(id) ==
    LET sum[k \in 0..Len(scEntries)] ==
            IF k = 0 THEN 0
            ELSE sum[k - 1]
                 + (IF scEntries[k].driverId = id
                    THEN ClaimedBase(scEntries[k].position,
                                     scEntries[k].status, scEvent.type)
                    ELSE 0)
    IN  sum[Len(scEntries)]
ClaimedBonusOf(id) ==
    LET sum[k \in 0..Len(scEntries)] ==
            IF k = 0 THEN 0
            ELSE sum[k - 1]
                 + (IF scEntries[k].driverId = id
                    THEN ClaimedBonus(scEntries[k], scEvent.type)
                    ELSE 0)
    IN  sum[Len(scEntries)]

\* C2: the +1 is applied to a result iff the event kind is GP, the flag is
\* set and the position is <= 10, whatever the status; no result of a
\* Sprint event gains it.
FastestLapBonusIff ==
    /\ Scored =>
        /\ SeqBag([i \in 1..Len(scScored) |->
                    <<scScored[i].driverId, scScored[i].pos,
                      scScored[i].status, scScored[i].fastestLapApplied>>])
           = SeqBag([i \in 1..Len(scEntries) |->
                    <<scEntries[i].driverId, scEntries[i].position,
                      scEntries[i].status,
                      ClaimedBonus(scEntries[i], scEvent.type) = 1>>])
        /\ \A i \in 1..Len(scScored) :
              Minus(scScored[i].pts,
                    Num(ClaimedBase(scScored[i].pos, scScored[i].status,
                                    scEvent.type)))
              = Num(IF scScored[i].fastestLapApplied THEN 1 ELSE 0)
        /\ scEvent.type = "Sprint" =>
              \A i \in 1..Len(scScored) : ~scScored[i].fastestLapApplied
    /\ call = "buildStandings" =>
        \A i \in 1..Len(scStandings.drivers) :
            LET row == scStandings.drivers[i]
            IN  Minus(row.points, Num(ClaimedBaseOf(row.driver.id)))
                = Num(ClaimedBonusOf(row.driver.id))

\* A result that did not finish takes the bonus in a GP.
FastestLapBonusIffWitness ==
    /\ call = "buildStandings"
    /\ \E i \in 1..Len(scScored) :
          /\ scScored[i].fastestLapApplied
          /\ scScored[i].status = "DNF"
          /\ scScored[i].pts = Num(1)
    /\ \E i \in 1..Len(scStandings.drivers) :
          scStandings.drivers[i].points = Num(1)

\* C3: base points are the table's for a FIN result and 0 for DNF or DNS
\* whatever the position; the points credited are base plus bonus.
PointsAreBasePlusBonus ==
    /\ Scored =>
        SeqBag([i \in 1..Len(scScored) |->
                    <<scScored[i].driverId, scScored[i].pos,
                      scScored[i].status, scScored[i].pts>>])
        = SeqBag([i \in 1..Len(scEntries) |->
                    LET r == scEntries[i]
                    IN  <<r.driverId, r.position, r.status,
                          Num(ClaimedBase(r.position, r.status, scEvent.type)
                              + ClaimedBonus(r, scEvent.type))>>])
    /\ call = "buildStandings" =>
        \A i \in 1..Len(scStandings.drivers) :
            LET row == scStandings.drivers[i]
            IN  row.points = Num(ClaimedBaseOf(row.driver.id)
                                 + ClaimedBonusOf(row.driver.id))

\* Scenario A: D1 wins a GP with the fastest lap, D2 is second.
PointsAreBasePlusBonusWitness ==
    /\ call = "buildStandings"
    /\ scEvent.type = "GP"
    /\ scEntries = <<Entry(scEvent.id, "d1", Num(1), "FIN", Bool(TRUE)),
                     Entry(scEvent.id, "d2", Num(2), "FIN", Bool(FALSE))>>
    /\ \E i \in 1..Len(scStandings.drivers) :
          /\ scStandings.drivers[i].driver.id = "d1"
          /\ scStandings.drivers[i].points = Num(26)
    /\ \E i \in 1..Len(scStandings.drivers) :
          /\ scStandings.drivers[i].driver.id = "d2"
          /\ scStandings.drivers[i].points = Num(18)

(***************************************************************************)
(* Properties of the result normalizer                                     *)
(***************************************************************************)
Normalized == call \in {"normalizeResults", "renormalize"}

\* The leading decimal digits of a character sequence.
RECURSIVE LeadingDigits(_)
LeadingDigits(chars) ==
    IF chars = <<>> \/ Head(chars) \notin Digits THEN <<>>
    ELSE <<Head(chars)>> \o LeadingDigits(Tail(chars))

\* The integer that integer parsing reads at the start of a string, as
\* <<digits found, value>>.
ClaimedParseString(chars) ==
    LET body   == TrimLeft(chars)
        minus  == body # <<>> /\ Head(body) = "-"
        digits == LeadingDigits(IF minus THEN Tail(body) ELSE body)
    IN  IF digits = <<>> THEN <<FALSE, 0>>
        ELSE <<TRUE, IF minus THEN 0 - DigitsValue(digits)
                     ELSE DigitsValue(digits)>>

\* Integer parsing of a raw value, as <<parsed, value>>: a number is
\* truncated toward zero, a string gives the integer it starts with, and
\* nothing else parses.
ClaimedParseInteger(v) ==
    IF IsNumber(v)
    THEN <<TRUE, IF v.n >= 0 THEN v.n \div 10 ELSE 0 - ((0 - v.n) \div 10)>>
    ELSE IF v.t = "string" THEN ClaimedParseString(v.s)
    ELSE <<FALSE, 0>>

\* max(1, parseInteger(raw) or 1)
ClaimedPosition(v) ==
    LET parsed == ClaimedParseInteger(v)
    IN  IF parsed[1] /\ parsed[2] >= 1 THEN parsed[2] ELSE 1

\* C4: every raw entry is mapped to position max(1, parseInteger(raw) or 1);
\* the output position is an integer >= 1.
PositionIsParsedInteger ==
    Normalized =>
        /\ \A i \in 1..Len(normList) :
              /\ IsInteger(normList[i].position)
              /\ IntOf(normList[i].position) >= 1
        /\ SeqBag([i \in 1..Len(normList) |->
                    <<normList[i].eventId, normList[i].driverId,
                      normList[i].position>>])
           = SeqBag([i \in 1..Len(rawList) |->
                    <<rawList[i].eventId, rawList[i].driverId,
                      Num(ClaimedPosition(rawList[i].position))>>])

ClaimedStatus(st) == IF st \in {"FIN", "DNF", "DNS"} THEN st ELSE "FIN"

\* C5: every raw entry is mapped to a status in {FIN, DNF, DNS}: the raw
\* status if it is one of the three, FIN for any other or missing status.
StatusConstrained ==
    Normalized =>
        /\ \A i \in 1..Len(normList) :
              normList[i].status \in {"FIN", "DNF", "DNS"}
        /\ SeqBag([i \in 1..Len(normList) |->
                    <<normList[i].eventId, normList[i].driverId,
                      normList[i].fastestLap, normList[i].status>>])
           = SeqBag([i \in 1..Len(rawList) |->
                    <<rawList[i].eventId, rawList[i].driverId,
                      Bool(Truthy(rawList[i].fastestLap)),
                      ClaimedStatus(rawList[i].status)>>])

\* An unknown status becomes FIN next to a DNF that is kept.
StatusConstrainedWitness ==
    /\ call = "normalizeResults"
    /\ \E i \in 1..Len(rawList) : rawList[i].status = "Retired"
    /\ \E i \in 1..Len(rawList) : rawList[i].status = "DNF"
    /\ \E i \in 1..Len(normList) : normList[i].status = "DNF"
    /\ \E i \in 1..Len(normList) : normList[i].status = "FIN"

\* C6: normalizeResults is idempotent: applied to its own output it returns
\* the same entries in the same order.
NormalizeIdempotent ==
    call = "renormalize" => normList = rawList

\* Two different entries of one event with one position, normalized twice,
\* from a raw list that the first pass changed.
NormalizeIdempotentWitness ==
    /\ call = "renormalize"
    /\ Len(normList) = MaxRaw
    /\ \E i \in 1..Len(normList) : \E j \in 1..Len(normList) :
          /\ i < j
          /\ normList[i] # normList[j]
          /\ normList[i].eventId = normList[j].eventId
          /\ normList[i].position = normList[j].position
          /\ normList[j].status = "DNF"

\* C7: the output is ordered by eventId ascending and, within one eventId,
\* by position ascending: of two adjacent entries the first has the smaller
\* eventId, or the same eventId and a position <= the second's.
NormalizedOrder ==
    Normalized =>
        \A i \in 1..(Len(normList) - 1) :
            LET a == normList[i]
                b == normList[i + 1]
            IN  \/ CollationRank[a.eventId] < CollationRank[b.eventId]
                \/ /\ a.eventId = b.eventId
                   /\ LessEq(a.position, b.position)

\* A raw list that starts with the later event and the larger position.
NormalizedOrderWitness ==
    /\ call = "normalizeResults"
    /\ Len(rawList) = MaxRaw
    /\ rawList[1].eventId = "e2" /\ rawList[Len(rawList)].eventId = "e1"
    /\ rawList[1].position = Num(1) /\ rawList[Len(rawList)].position = Num(2)
    /\ normList[1].eventId = "e1" /\ normList[Len(normList)].eventId = "e2"

(***************************************************************************)
(* Properties of the stored results                                        *)
(***************************************************************************)
\* The last of the supplied entries that names driver d.
LastSupplied(d) ==
    argEntries[CHOOSE i \in 1..Len(argEntries) :
        /\ argEntries[i].driverId = d
        /\ \A j \in (i + 1)..Len(argEntries) : argEntries[j].driverId # d]

\* C8: after a bulk replace the stored results hold at most one entry per
\* (eventId, driverId); of two supplied entries for one driver the later one
\* is the one stored.
OneEntryPerEventAndDriver ==
    call = "bulkReplaceEventResults" =>
        /\ \A i \in 1..Len(results) : \A j \in 1..Len(results) :
              (/\ results[i].eventId = results[j].eventId
               /\ results[i].driverId = results[j].driverId) => i = j
        /\ \A d \in {argEntries[i].driverId : i \in 1..Len(argEntries)} :
              normalizeEntry(LastSupplied(d))
                  \in SeqToSet(entriesOfEvent(results, argEventId))

\* C9: after any bulk replaces, single-entry saves and imports every stored
\* result has a position >= 1, a status in {FIN, DNF, DNS} and a boolean
\* fastestLap.
StoredResultsAreNormalized ==
    \A i \in 1..Len(results) :
        /\ IsNumber(results[i].position)
        /\ GreaterEq(results[i].position, Num(1))
        /\ results[i].status \in {"FIN", "DNF", "DNS"}
        /\ results[i].fastestLap \in {Bool(TRUE), Bool(FALSE)}

\* C10: bulkReplaceEventResults(eventId, entries) leaves for eventId exactly
\* the normalized supplied entries, none of the entries stored before for
\* eventId, and for every other event the set of results it had.
ReplaceIsWholesale ==
    call = "bulkReplaceEventResults" =>
        /\ entriesOfEvent(results, argEventId) = normalizeResults(argEntries)
        /\ \A e \in EventIds \ {argEventId} :
              SeqToSet(entriesOfEvent(results, e))
              = SeqToSet(entriesOfEvent(prev, e))

(***************************************************************************)
(* Properties of the standings                                             *)
(***************************************************************************)
\* The standings of the current lists have been computed.
Fresh == scStandings # NoStandings

\* The stored results of existing events, by index, and those of driver id.
Counted == {i \in 1..Len(results) :
                \E k \in 1..Len(events) : events[k].id = results[i].eventId}
CountedOf(id) == {i \in Counted : results[i].driverId = id}

DriverRows == SeqToSet(scStandings.drivers)
TeamRows   == SeqToSet(scStandings.teams)

\* C11: for every known driver, wins is the number of the driver's results
\* (in existing events) with position 1 and podiums the number with position
\* <= 3, whatever the status: a DNF in position 1 scores no base points and
\* still counts as a win and a podium.
WinsAndPodiumsCountPositions ==
    Fresh =>
        \A row \in DriverRows :
            /\ row.wins = Cardinality({i \in CountedOf(row.driver.id) :
                                        IntOf(results[i].position) = 1})
            /\ row.podiums = Cardinality({i \in CountedOf(row.driver.id) :
                                        IntOf(results[i].position) <= 3})

\* D1 did not finish in position 1: no points, one win, one podium.
WinsAndPodiumsCountPositionsWitness ==
    /\ Fresh
    /\ results = <<Entry("e1", "d1", Num(1), "DNF", Bool(FALSE))>>
    /\ \E row \in DriverRows :
          /\ row.driver.id = "d1"
          /\ row.points = Num(0) /\ row.wins = 1 /\ row.podiums = 1

\* The lowest position among the results of driver id in existing events.
LowestPosition(id) ==
    CHOOSE p \in {IntOf(results[i].position) : i \in CountedOf(id)} :
        \A i \in CountedOf(id) : p <= IntOf(results[i].position)

\* C12: for every known driver, bestFinish is the lowest position among the
\* driver's results in existing events, and it is 99 exactly when the driver
\* has no result.
BestFinishIsLowestPosition ==
    Fresh =>
        \A row \in DriverRows :
            /\ (row.bestFinish = Num(99)) <=> (CountedOf(row.driver.id) = {})
            /\ CountedOf(row.driver.id) # {}
                  => row.bestFinish = Num(LowestPosition(row.driver.id))

\* The stored results whose driver is in the drivers list.
ResultsOfKnownDrivers ==
    FilterSeq(results, {r \in SeqToSet(results) :
                            \E d \in SeqToSet(drivers) : d.id = r.driverId})

\* C13: a result whose driver is not in the drivers list is skipped: the
\* standings are computed, with one row per driver, and are those of the
\* results without it (it adds nothing to any driver's points, wins,
\* podiums, bestFinish or finishes nor to any team's points); deleting a
\* driver leaves the stored results as they were.
UnknownDriverIsSkipped ==
    /\ [](Fresh =>
            /\ Len(scStandings.drivers) = Len(drivers)
            /\ scStandings = buildStandings(build, drivers, teams, events,
                                            ResultsOfKnownDrivers)
            /\ \A row \in DriverRows :
                  Len(row.finishes) = Cardinality(CountedOf(row.driver.id)))
    /\ [][drivers' # drivers => results' = results]_vars

\* D1, who won the GP ahead of D2, is deleted: the results are both still
\* stored, and D1's team has no points.
UnknownDriverIsSkippedWitness ==
    /\ Fresh /\ call = "deleteDriver"
    /\ results = <<Entry("e1", "d1", Num(1), "FIN", Bool(TRUE)),
                   Entry("e1", "d2", Num(2), "FIN", Bool(FALSE))>>
    /\ \A d \in SeqToSet(drivers) : d.id # "d1"
    /\ \E row \in DriverRows : row.driver.id = "d2" /\ row.points = Num(18)
    /\ \E row \in SeqToSet(scPrior.teams) :
          row.team.id = "t1" /\ row.points = Num(26)
    /\ \E row \in TeamRows : row.team.id = "t1" /\ row.points = Num(0)

\* The kind of the event a stored result belongs to.
KindOf(eventId) ==
    (CHOOSE e \in SeqToSet(events) : e.id = eventId).type

\* The points the specification gives stored result i: base plus bonus.
ClaimedResultPoints(i) ==
    ClaimedBase(results[i].position, results[i].status,
                KindOf(results[i].eventId))
    + ClaimedBonus(results[i], KindOf(results[i].eventId))

\* The points of the counted results whose driver is known and in team.
ClaimedPointsOfTeam(team) ==
    LET mine == {i \in Counted :
                    \E d \in SeqToSet(drivers) :
                        d.id = results[i].driverId /\ d.teamId = team}
        sum[k \in 0..Len(results)] ==
            IF k = 0 THEN 0
            ELSE sum[k - 1] + (IF k \in mine THEN ClaimedResultPoints(k) ELSE 0)
    IN  sum[Len(results)]

\* The points of the rows of a leaderboard, added up.
TotalOf(rows) ==
    LET sum[k \in 0..Len(rows)] ==
            IF k = 0 THEN 0 ELSE sum[k - 1] + IntOf(rows[k].points)
    IN  sum[Len(rows)]

DriverTotals(standings) ==
    {<<row.driver.id, row.points, row.wins, row.podiums, row.bestFinish>> :
        row \in SeqToSet(standings.drivers)}
TeamTotals(standings) ==
    {<<row.team.id, row.points>> : row \in SeqToSet(standings.teams)}

\* C15: the totals do not depend on the order of the events: for the events
\* list in another order every driver's points, wins, podiums and bestFinish
\* and every team's points are the same.
TotalsIgnoreEventOrder ==
    (Fresh /\ call = "reorderEvents") =>
        /\ DriverTotals(scStandings) = DriverTotals(scPrior)
        /\ TeamTotals(scStandings) = TeamTotals(scPrior)

\* D1 has a result in both events: the finishes come in the other order and
\* the totals stay.
TotalsIgnoreEventOrderWitness ==
    /\ Fresh /\ call = "reorderEvents"
    /\ events[1].id = "e2"
    /\ \E row \in DriverRows : \E before \in SeqToSet(scPrior.drivers) :
          /\ row.driver.id = "d1" /\ before.driver.id = "d1"
          /\ row.finishes = <<Num(3), Num(1)>>
          /\ before.finishes = <<Num(1), Num(3)>>
          /\ row.points = Num(32) /\ before.points = Num(32)

\* Row a is not worse than row b: at the first of the five keys on which
\* they differ a is the better one (more points, more wins, more podiums, a
\* lower bestFinish, the earlier name).
NotWorse(a, b) ==
    LET keysOf(row) == <<0 - row.points.n, 0 - row.wins, 0 - row.podiums,
                         row.bestFinish.n, CollationRank[row.driver.name]>>
        ka == keysOf(a)
        kb == keysOf(b)
    IN  \/ ka = kb
        \/ \E k \in 1..5 : /\ ka[k] < kb[k]
                           /\ \A j \in 1..(k - 1) : ka[j] = kb[j]

CountedOfTeam(team) ==
    {k \in Counted : \E d \in SeqToSet(drivers) :
        d.id = results[k].driverId /\ d.teamId = team.id}

\* C17: the constructors' leaderboard is sorted by points descending and
\* then by team name ascending, and it has exactly one row per known team: a
\* team none of whose drivers has a result has 0 points.
TeamsLeaderboardSorted ==
    Fresh =>
        /\ \A i \in 1..(Len(scStandings.teams) - 1) :
              LET a == scStandings.teams[i]
                  b == scStandings.teams[i + 1]
              IN  \/ a.points.n > b.points.n
                  \/ /\ a.points.n = b.points.n
                     /\ CollationRank[a.team.name] <= CollationRank[b.team.name]
        /\ Len(scStandings.teams) = Len(teams)
        /\ \A t \in SeqToSet(teams) :
              Cardinality({i \in 1..Len(scStandings.teams) :
                              scStandings.teams[i].team = t}) = 1
        /\ \A row \in TeamRows :
              CountedOfTeam(row.team) = {} => row.points = Num(0)

\* Only the driver without a team has scored: both teams have 0 points and
\* Ferrari, the second team of the list, comes first.
TeamsLeaderboardSortedWitness ==
    /\ Fresh
    /\ teams[1].name = "McLaren"
    /\ [i \in 1..2 |-> scStandings.teams[i].team.name] = <<"Ferrari", "McLaren">>
    /\ \A row \in TeamRows : row.points = Num(0)
    /\ \E row \in DriverRows : row.driver.teamId = "" /\ row.points.n > 0

\* C18: the ranking is deterministic for any input: the order of the rows of
\* the drivers' leaderboard is a function of the five sort keys alone, so for
\* the drivers list in another order (same teams, events and results) the
\* leaderboard is the same.
LeaderboardIgnoresDriverOrder ==
    (Fresh /\ call = "reorderDrivers") => scStandings.drivers = scPrior.drivers

(***************************************************************************)
(* Properties of the trend                                                 *)
(***************************************************************************)
Trended == analytics # NoAnalytics

\* The round the specification reads from an event: 0 when it has none.
ClaimedRound(e) == IF e.round \in {Undefined, Null} THEN 0 ELSE IntOf(e.round)

\* The place of an event in the events list.
PlaceOf(e) == CHOOSE i \in 1..Len(events) : events[i] = e

\* C19: the trend builder takes the events in ascending order of round,
\* events of equal round in the order of the events list and an event
\* without a round as round 0; the rounds axis lists the rounds in that
\* order.
EventsTakenByRound ==
    Trended =>
        /\ Len(eventsSorted) = Len(events)
        /\ SeqToSet(eventsSorted) = SeqToSet(events)
        /\ \A i, j \in 1..Len(eventsSorted) :
              i < j =>
                  \/ ClaimedRound(eventsSorted[i]) < ClaimedRound(eventsSorted[j])
                  \/ /\ ClaimedRound(eventsSorted[i]) = ClaimedRound(eventsSorted[j])
                     /\ PlaceOf(eventsSorted[i]) < PlaceOf(eventsSorted[j])
        /\ analytics.rounds =
              [i \in 1..Len(eventsSorted) |-> Num(ClaimedRound(eventsSorted[i]))]
        /\ \A id \in DOMAIN analytics.driverCumSeries :
              Len(analytics.driverCumSeries[id]) = Len(eventsSorted)

\* The event without a round is listed between two events of round 2: it
\* comes first and the two others keep their order.
EventsTakenByRoundWitness ==
    /\ Trended
    /\ [i \in 1..3 |-> events[i].id] = <<"e3", "e2", "e1">>
    /\ events[1].round = Num(2) /\ events[2].round = Undefined
    /\ events[3].round = Num(2)
    /\ [i \in 1..3 |-> eventsSorted[i].id] = <<"e2", "e3", "e1">>
    /\ analytics.rounds = <<Num(0), Num(2), Num(2)>>

\* The points of driver id in event e: those of the driver's stored results
\* of the event.
ClaimedPointsIn(id, e) ==
    LET sum[k \in 0..Len(results)] ==
            IF k = 0 THEN 0
            ELSE sum[k - 1]
                 + (IF results[k].driverId = id /\ results[k].eventId = e.id
                    THEN ClaimedResultPoints(k) ELSE 0)
    IN  sum[Len(results)]

\* C20: in the cumulative trend every known driver has a series with one
\* value per event; the value at an event is the value before it (0 before
\* the first event) plus the driver's points in the event, so that a driver
\* without a result in the event keeps the value, and no place is empty.
SeriesIsCumulative ==
    Trended =>
        /\ DOMAIN analytics.driverCumSeries = {d.id : d \in SeqToSet(drivers)}
        /\ \A id \in DOMAIN analytics.driverCumSeries :
              LET series == analytics.driverCumSeries[id]
              IN  /\ Len(series) = Len(events)
                  /\ \A i \in 1..Len(series) :
                        /\ IsNumber(series[i])
                        /\ series[i] =
                              Num((IF i = 1 THEN 0 ELSE IntOf(series[i - 1]))
                                  + ClaimedPointsIn(id, eventsSorted[i]))

\* A driver has no result in the first event, scores in the second and has
\* no result in the third: 0, the points, the points again.
SeriesIsCumulativeWitness ==
    /\ Trended
    /\ \E id \in DOMAIN analytics.driverCumSeries :
          LET series == analytics.driverCumSeries[id]
          IN  /\ Len(series) = 3
              /\ series[1] = Num(0)
              /\ IntOf(series[2]) > 0
              /\ series[3] = series[2]
              /\ \A k \in 1..Len(results) :
                    results[k].driverId = id =>
                        results[k].eventId = eventsSorted[2].id

\* C21: the series of the trend do not depend on the order of the events
\* list: for the events in another order the rounds axis and every driver's
\* cumulative series are the same.
SeriesIgnoreEventOrder ==
    (Trended /\ call = "reorderEvents") =>
        /\ analytics.rounds = analyticsPrior.rounds
        /\ analytics.driverCumSeries = analyticsPrior.driverCumSeries

(***************************************************************************)
(* Properties of the core on malformed input                               *)
(***************************************************************************)
\* C22: the core is total: normalizeResults and buildStandings never throw,
\* whatever fields the records of teams, drivers, events and results lack.
CoreNeverThrows == thrown = ""

(***************************************************************************)
(* Properties of export and import                                         *)
(***************************************************************************)
\* C23: export followed by import is a lossless round trip: importing the
\* document exportJSON wrote leaves teams, drivers, events and results as
\* they were exported.
ExportImportRoundTrip ==
    [][(call = "exportJSON" /\ call' = "importJSON") =>
          /\ teams' = teams /\ drivers' = drivers
          /\ events' = events /\ results' = results]_vars

\* The file of a season with both events and two results was imported.
ExportImportRoundTripWitness ==
    /\ call = "importJSON" /\ exported # <<>>
    /\ exported.events = ArrayKey(AppEvents)
    /\ Len(exported.results.items) = 2
    /\ Len(events) = 2 /\ Len(results) = 2

(***************************************************************************)
(* Properties of the results grid                                          *)
(***************************************************************************)
\* The rows of the grid in which a driver is selected.
Selected == {i \in 1..Len(grid) : grid[i].driverId # ""}

\* C24: saveAll rejects a grid with one driver selected in two rows: bulk
\* replace is not called and the stored results are unchanged; otherwise
\* only the rows with a selected driver are submitted, all with the id of
\* the current event.
SaveAllRejectsDuplicates ==
    [][call' = "saveAll" =>
          IF \E i, j \in Selected :
                i # j /\ grid[i].driverId = grid[j].driverId
          THEN /\ results' = results
               /\ argEventId' = "" /\ argEntries' = <<>>
          ELSE /\ argEventId' = panelEventId
               /\ Len(argEntries') = Cardinality(Selected)
               /\ \A k \in 1..Len(argEntries') :
                     /\ argEntries'[k].eventId = panelEventId
                     /\ \E i \in Selected :
                           /\ argEntries'[k].driverId = grid[i].driverId
                           /\ argEntries'[k].position = grid[i].position
               /\ results' = bulkReplaceEventResults(results, panelEventId,
                                                     argEntries')]_vars

\* A save was refused: d1 is in both rows of the grid of the Sprint and the
\* results stored before are still there.
SaveAllRejectsDuplicatesWitness ==
    /\ call = "saveAll" /\ argEventId = ""
    /\ panelEventId = "e2"
    /\ Len(grid) = 2 /\ grid[1].driverId = "d1" /\ grid[2].driverId = "d1"
    /\ Len(results) = 2
    /\ \A k \in 1..Len(results) : results[k].eventId = "e1"

\* C25: after any sequence of saves at most one stored result of an event
\* has fastestLap = true, and no result of a Sprint has.
OneFastestLapPerEvent ==
    \A i \in 1..Len(events) :
        LET flagged == {k \in 1..Len(results) :
                           /\ results[k].eventId = events[i].id
                           /\ results[k].fastestLap = Bool(TRUE)}
        IN  /\ Cardinality(flagged) <= 1
            /\ events[i].type = "Sprint" => flagged = {}

(***************************************************************************)
(* Properties of the Analytics tab against the Standings tab               *)
(***************************************************************************)
\* Both tabs have computed what they show of the state.
BothComputed == Trended /\ scStandings # NoStandings

MigrationKeepsLegacyData ==
    (Settled /\ call = "idle") =>
        /\ Len(meta.seasons) = 1
        /\ meta.seasons[1].id = meta.activeId
        /\ \A kind \in Kinds :
              /\ seasonKey(kind, meta.activeId) \in DOMAIN storage
              /\ storage[seasonKey(kind, meta.activeId)] = LegacyData[kind]

\* The ids of the seasons of meta.
SeasonIdsOf(m) == {m.seasons[i].id : i \in 1..Len(m.seasons)}

\* The keys of the four lists that the store holds.
ListKeys ==
    {pair \in Kinds \X ({"s1", "s2", "s3", "s4", "s5", "s6", ""}) :
        seasonKey(pair[1], pair[2]) \in DOMAIN storage}

\* C28: the lists of a season are isolated in the store: through creating,
\* switching and deleting seasons and page loads, the value under the key
\* of a season is that season's list, never the list of another season and
\* never the initial empty list in place of the season's list; the lists of
\* a deleted season are under no key.
SeasonDataIsolated ==
    \A pair \in ListKeys :
        LET kind  == pair[1]
            id    == pair[2]
            value == storage[seasonKey(kind, id)]
        IN  /\ (id \in {"s1", "s2"} /\ id \in SeasonIdsOf(meta)) =>
                  value = SeasonData[id][kind]
            /\ (id \notin {"s1", "s2"} /\ id \in SeasonIdsOf(meta)) =>
                  value = <<>>
            /\ \A gone \in {"s1", "s2"} \ SeasonIdsOf(meta) :
                  value # SeasonData[gone][kind]

(***************************************************************************)
(* Properties of the editing panels                                        *)
(***************************************************************************)
\* C29: deleting an event cascades to its results: through addEvent,
\* updateEvent, deleteEvent and bulkReplaceEventResults every stored result
\* has the id of an existing event, and deleteEvent leaves the results of
\* the other events as they were.
DeleteEventCascades ==
    /\ \A k \in 1..Len(results) :
          \E i \in 1..Len(events) : events[i].id = results[k].eventId
    /\ call = "deleteEvent" =>
          \A i \in 1..Len(events) :
              entriesOfEvent(results, events[i].id)
                  = entriesOfEvent(prev, events[i].id)

\* An event with a result was deleted and the result of the other event is
\* still stored.
DeleteEventCascadesWitness ==
    /\ call = "deleteEvent"
    /\ Len(events) = 1 /\ Len(results) = 1 /\ Len(prev) = 2
    /\ \E k \in 1..Len(prev) : prev[k].eventId = argEventId

\* Every driver has no team or a team there is.
DriversHaveTeams ==
    \A i \in 1..Len(drivers) :
        \/ drivers[i].teamId = ""
        \/ \E j \in 1..Len(teams) : teams[j].id = drivers[i].teamId

\* C30: deleting a team detaches its drivers: through addTeam, updateTeam,
\* deleteTeam, addDriver, updateDriver and deleteDriver in the panels the
\* teamId of every driver is empty or the id of an existing team, and
\* deleteTeam changes no driver's id or name and no stored result.
DeleteTeamDetachesDrivers ==
    /\ []DriversHaveTeams
    /\ [][call' = "deleteTeam" =>
            /\ Len(drivers') = Len(drivers)
            /\ \A i \in 1..Len(drivers) :
                  /\ drivers'[i].id = drivers[i].id
                  /\ drivers'[i].name = drivers[i].name
            /\ results' = results]_vars

\* The only team was deleted and the two drivers there are have no team.
DeleteTeamDetachesDriversWitness ==
    /\ call = "deleteTeam"
    /\ teams = <<>>
    /\ Len(drivers) = 2
    /\ \A i \in 1..Len(drivers) : drivers[i].teamId = ""

====
